---------------------------- MODULE Spec2Model ----------------------------
(***************************************************************************)
(* Model of the custom-field resolver and the task summary of              *)
(* clickup-mcp-lite (src/src/tools/task-tools.ts), of the normalizer       *)
(* of comment blocks used by src/src/tools/comment-tools.ts, and of the    *)
(* tool handlers of both files that call them.                             *)
(*                                                                         *)
(* JavaScript values are tagged records.  A string is a sequence of        *)
(* one-character strings, so that parsing, formatting and serialisation    *)
(* are computed character by character.  An object is the sequence of its  *)
(* own properties in insertion order, each [k |-> key, v |-> value].       *)
(* Numbers are integers (the model has no fractions), plus NaN.            *)
(* A call that raises is modelled by the completion Throw(e).              *)
(***************************************************************************)
EXTENDS Integers, Sequences, FiniteSets

VARIABLES
    field,      \* the custom field record handed to resolveCustomFieldValue
    result,     \* the completion of the last call (a value or a Throw)
    pc,         \* "call": a call is pending; "done": it has returned
    task,       \* the task object the task functions are given
    heap,       \* the field record objects in memory, by reference number
    comment,    \* the blocks handed to processCommentBlocks
    processedComment,   \* the blocks processCommentBlocks returned
    args,       \* the argument object a tool handler is invoked with
    returned,   \* the tool result a handler has returned
    requests,   \* the calls made to the ClickUp client, in order
    calls       \* the handler invocations in flight at the same time

vars == <<field, result, pc, task, heap, comment, processedComment,
          args, returned, requests, calls>>

---------------------------------------------------------------------------
(* JavaScript values *)

Undefined == [t |-> "undefined"]

Null == [t |-> "null"]

Bool(b) == [t |-> "boolean", b |-> b]

Num(n) == [t |-> "number", n |-> n]

NaN == [t |-> "nan"]

Str(s) == [t |-> "string", s |-> s]

Arr(a) == [t |-> "array", a |-> a]

Obj(p) == [t |-> "object", p |-> p]

Throw(e) == [t |-> "throw", e |-> e]

Prop(k, v) == [k |-> k, v |-> v]

\* typeof v
TypeOf(v) ==
    CASE v.t = "undefined" -> "undefined"
      [] v.t = "boolean" -> "boolean"
      [] v.t \in {"number", "nan"} -> "number"
      [] v.t = "string" -> "string"
      [] OTHER -> "object"

\* ToBoolean(v): the falsy values are undefined, null, false, 0, NaN and ""
Truthy(v) ==
    CASE v.t \in {"undefined", "null", "nan"} -> FALSE
      [] v.t = "boolean" -> v.b
      [] v.t = "number" -> v.n # 0
      [] v.t = "string" -> v.s # <<>>
      [] OTHER -> TRUE

\* a || b
OrElse(a, b) == IF Truthy(a) THEN a ELSE b

\* a === b.  Primitives compare by value and NaN equals nothing; two
\* objects or arrays taken from different places of a parsed JSON payload
\* are different references, hence never strictly equal.
StrictEquals(a, b) ==
    /\ a.t \in {"undefined", "null", "boolean", "number", "string"}
    /\ a = b

\* Array.isArray(v)
IsArray(v) == v.t = "array"

HasOwn(o, k) == \E i \in 1..Len(o.p) : o.p[i].k = k

\* o.k for a value o that is neither null nor undefined: the own property
\* of an object, undefined on anything else the model holds.
Get(o, k) ==
    IF o.t = "object" /\ HasOwn(o, k)
    THEN o.p[CHOOSE i \in 1..Len(o.p) : o.p[i].k = k].v
    ELSE Undefined

\* o?.k
OptGet(o, k) == IF o.t \in {"undefined", "null"} THEN Undefined ELSE Get(o, k)

---------------------------------------------------------------------------
(* Number and string conversions *)

Digit(d) ==
    CASE d = 0 -> "0" [] d = 1 -> "1" [] d = 2 -> "2" [] d = 3 -> "3"
      [] d = 4 -> "4" [] d = 5 -> "5" [] d = 6 -> "6" [] d = 7 -> "7"
      [] d = 8 -> "8" [] d = 9 -> "9"

RECURSIVE NatToString(_)
NatToString(n) ==
    IF n < 10 THEN <<Digit(n)>> ELSE NatToString(n \div 10) \o <<Digit(n % 10)>>

\* Number::toString for an integer
IntToString(n) == IF n < 0 THEN <<"-">> \o NatToString(-n) ELSE NatToString(n)

RECURSIVE ToString(_)
RECURSIVE JoinStrings(_, _)
\* Array.prototype.join: null and undefined elements give the empty string
JoinStrings(a, i) ==
    IF i > Len(a) THEN <<>>
    ELSE (IF i > 1 THEN <<",">> ELSE <<>>)
         \o (IF a[i].t \in {"undefined", "null"} THEN <<>> ELSE ToString(a[i]))
         \o JoinStrings(a, i + 1)

\* ToString(v), as applied by a template literal and by parseInt
ToString(v) ==
    CASE v.t = "undefined" -> <<"u", "n", "d", "e", "f", "i", "n", "e", "d">>
      [] v.t = "null" -> <<"n", "u", "l", "l">>
      [] v.t = "boolean" -> (IF v.b THEN <<"t", "r", "u", "e">> ELSE <<"f", "a", "l", "s", "e">>)
      [] v.t = "number" -> IntToString(v.n)
      [] v.t = "nan" -> <<"N", "a", "N">>
      [] v.t = "string" -> v.s
      [] v.t = "array" -> JoinStrings(v.a, 1)
      [] v.t = "object" -> <<"[", "o", "b", "j", "e", "c", "t", " ", "O", "b", "j", "e", "c", "t", "]">>

RECURSIVE JSONStringify(_)
RECURSIVE SerializeElements(_, _)
RECURSIVE SerializeProperties(_, _, _)
\* the elements of an array: undefined is written as null
SerializeElements(a, i) ==
    IF i > Len(a) THEN <<>>
    ELSE (IF i > 1 THEN <<",">> ELSE <<>>)
         \o (IF a[i].t = "undefined" THEN <<"n", "u", "l", "l">> ELSE JSONStringify(a[i]))
         \o SerializeElements(a, i + 1)

\* the properties of an object: those holding undefined are left out
SerializeProperties(p, i, first) ==
    IF i > Len(p) THEN <<>>
    ELSE IF p[i].v.t = "undefined" THEN SerializeProperties(p, i + 1, first)
    ELSE (IF first THEN <<>> ELSE <<",">>)
         \o <<"\"">> \o p[i].k \o <<"\"", ":">> \o JSONStringify(p[i].v)
         \o SerializeProperties(p, i + 1, FALSE)

\* JSON.stringify(v) without indentation, for a value other than undefined.
\* The characters of the model need no escaping.
JSONStringify(v) ==
    CASE v.t = "null" -> <<"n", "u", "l", "l">>
      [] v.t = "boolean" -> (IF v.b THEN <<"t", "r", "u", "e">> ELSE <<"f", "a", "l", "s", "e">>)
      [] v.t = "number" -> IntToString(v.n)
      [] v.t = "nan" -> <<"n", "u", "l", "l">>
      [] v.t = "string" -> <<"\"">> \o v.s \o <<"\"">>
      [] v.t = "array" -> <<"[">> \o SerializeElements(v.a, 1) \o <<"]">>
      [] v.t = "object" -> <<"{">> \o SerializeProperties(v.p, 1, TRUE) \o <<"}">>

---------------------------------------------------------------------------
(* parseInt, Date and toISOString.  An epoch-millisecond count does not    *)
(* fit a machine integer of the checker, so a time is held as a day        *)
(* number and the milliseconds within that day.                            *)

msPerDay == 86400000

\* 8.64e15 ms, the largest magnitude of a time value, in days
MaxTimeDay == 100000000

IsWhiteSpace(c) == c = " "

RECURSIVE TrimStart(_)
TrimStart(s) ==
    IF s # <<>> /\ IsWhiteSpace(Head(s)) THEN TrimStart(Tail(s)) ELSE s

\* the value of c as a digit, 36 when c is no digit of any radix used here
DigitValue(c) ==
    CASE c = "0" -> 0 [] c = "1" -> 1 [] c = "2" -> 2 [] c = "3" -> 3
      [] c = "4" -> 4 [] c = "5" -> 5 [] c = "6" -> 6 [] c = "7" -> 7
      [] c = "8" -> 8 [] c = "9" -> 9
      [] c \in {"a", "A"} -> 10 [] c \in {"b", "B"} -> 11
      [] c \in {"c", "C"} -> 12 [] c \in {"d", "D"} -> 13
      [] c \in {"e", "E"} -> 14 [] c \in {"f", "F"} -> 15
      [] OTHER -> 36

\* the magnitude day * msPerDay + ms; big: beyond every time value
Magnitude(day, ms, big) == [day |-> day, ms |-> ms, big |-> big]

\* m * radix + d
AppendDigit(m, radix, d) ==
    LET low == m.ms * radix + d
        day == m.day * radix + (low \div msPerDay)
    IN  IF m.big \/ day > MaxTimeDay
        THEN Magnitude(0, 0, TRUE)
        ELSE Magnitude(day, low % msPerDay, FALSE)

RECURSIVE ParseDigits(_, _, _, _)
\* the longest prefix of s made of digits of the radix: <<magnitude, count>>
ParseDigits(s, radix, m, n) ==
    IF s # <<>> /\ DigitValue(Head(s)) < radix
    THEN ParseDigits(Tail(s), radix, AppendDigit(m, radix, DigitValue(Head(s))), n + 1)
    ELSE <<m, n>>

\* parseInt(v) with no radix: NaN, or the integer [neg, m].  An integer a
\* double cannot hold exactly exceeds 2^53 > 8.64e15: it is big, and stays
\* big after rounding.
ParseInt(v) ==
    LET s0 == TrimStart(ToString(v))
        neg == s0 # <<>> /\ Head(s0) = "-"
        s1 == IF s0 # <<>> /\ Head(s0) \in {"+", "-"} THEN Tail(s0) ELSE s0
        hex == Len(s1) >= 2 /\ s1[1] = "0" /\ s1[2] \in {"x", "X"}
        s2 == IF hex THEN Tail(Tail(s1)) ELSE s1
        parsed == ParseDigits(s2, IF hex THEN 16 ELSE 10, Magnitude(0, 0, FALSE), 0)
    IN  IF parsed[2] = 0 THEN NaN ELSE [t |-> "integer", neg |-> neg, m |-> parsed[1]]

\* new Date(n) for the result n of parseInt: the time value TimeClip(n),
\* as <<Day(t), TimeWithinDay(t)>>, or NaN (an invalid date)
NewDate(n) ==
    IF n.t = "nan" THEN NaN
    ELSE IF n.m.big \/ n.m.day > MaxTimeDay \/ (n.m.day = MaxTimeDay /\ n.m.ms > 0)
    THEN NaN
    ELSE IF n.neg /\ n.m.ms > 0
    THEN [t |-> "time", day |-> -n.m.day - 1, ms |-> msPerDay - n.m.ms]
    ELSE [t |-> "time", day |-> (IF n.neg THEN -n.m.day ELSE n.m.day), ms |-> n.m.ms]

DayFromYear(y) ==
    365 * (y - 1970) + ((y - 1969) \div 4) - ((y - 1901) \div 100)
        + ((y - 1601) \div 400)

InLeapYear(y) == (y % 4 = 0 /\ y % 100 # 0) \/ y % 400 = 0

\* the largest y with DayFromYear(y) <= day, searched around an estimate
YearFromTime(day) ==
    LET est == 1970 + 400 * (day \div 146097) + ((day % 146097) \div 365)
        cand == {y \in (est - 3)..(est + 3) : DayFromYear(y) <= day}
    IN  CHOOSE y \in cand : \A z \in cand : z <= y

\* the first day of month m (0..11) within a year
MonthStart(m, leap) ==
    LET l == IF leap THEN 1 ELSE 0
    IN  CASE m = 0 -> 0 [] m = 1 -> 31 [] m = 2 -> 59 + l [] m = 3 -> 90 + l
          [] m = 4 -> 120 + l [] m = 5 -> 151 + l [] m = 6 -> 181 + l
          [] m = 7 -> 212 + l [] m = 8 -> 243 + l [] m = 9 -> 273 + l
          [] m = 10 -> 304 + l [] m = 11 -> 334 + l [] m = 12 -> 365 + l

MonthFromTime(day) ==
    LET y == YearFromTime(day)
        d == day - DayFromYear(y)
    IN  CHOOSE m \in 0..11 :
            MonthStart(m, InLeapYear(y)) <= d /\ d < MonthStart(m + 1, InLeapYear(y))

DateFromTime(day) ==
    LET y == YearFromTime(day)
    IN  day - DayFromYear(y) - MonthStart(MonthFromTime(day), InLeapYear(y)) + 1

RECURSIVE PadStart(_, _)
\* String.prototype.padStart(n, "0")
PadStart(s, n) == IF Len(s) >= n THEN s ELSE PadStart(<<"0">> \o s, n)

\* Date.prototype.toISOString: RangeError on an invalid date; the year has
\* four digits from 0 to 9999 and a sign and six digits otherwise
ToISOString(d) ==
    IF d.t = "nan" THEN Throw("RangeError")
    ELSE
      LET y == YearFromTime(d.day)
          year == IF y >= 0 /\ y <= 9999 THEN PadStart(NatToString(y), 4)
                  ELSE (IF y < 0 THEN <<"-">> ELSE <<"+">>)
                       \o PadStart(NatToString(IF y < 0 THEN -y ELSE y), 6)
          hh == d.ms \div 3600000
          mm == (d.ms \div 60000) % 60
          ss == (d.ms \div 1000) % 60
          ms == d.ms % 1000
      IN  Str(year \o <<"-">> \o PadStart(NatToString(MonthFromTime(d.day) + 1), 2)
              \o <<"-">> \o PadStart(NatToString(DateFromTime(d.day)), 2)
              \o <<"T">> \o PadStart(NatToString(hh), 2)
              \o <<":">> \o PadStart(NatToString(mm), 2)
              \o <<":">> \o PadStart(NatToString(ss), 2)
              \o <<".">> \o PadStart(NatToString(ms), 3) \o <<"Z">>)

RECURSIVE UpTo(_, _)
\* s.split(c)[0]: the part of s before the first c
UpTo(s, c) ==
    IF s = <<>> \/ Head(s) = c THEN <<>> ELSE <<Head(s)>> \o UpTo(Tail(s), c)

---------------------------------------------------------------------------
(* resolveCustomFieldValue *)

RECURSIVE FindFrom(_, _, _, _)
\* a.find(o => o.k === x) from index i: the first such element, undefined
\* when there is none, TypeError when an element reached is null or undefined
FindFrom(a, k, x, i) ==
    IF i > Len(a) THEN Undefined
    ELSE IF a[i].t \in {"undefined", "null"} THEN Throw("TypeError")
    ELSE IF StrictEquals(Get(a[i], k), x) THEN a[i]
    ELSE FindFrom(a, k, x, i + 1)

\* options.find(o => o.k === x): only an array has a find method
Find(options, k, x) ==
    IF IsArray(options) THEN FindFrom(options.a, k, x, 1) ELSE Throw("TypeError")

\* mutant of ResolveLabel: the name is preferred to the label
ResolveLabel_nameFirst(options, id) ==
    LET opt == Find(options, <<"i", "d">>, id)
    IN  IF opt.t = "throw" THEN opt
        ELSE OrElse(OrElse(OptGet(opt, <<"n", "a", "m", "e">>), OptGet(opt, <<"l", "a", "b", "e", "l">>)), id)

\* the callback of the labels branch: opt?.label || opt?.name || id
ResolveLabel(options, id) ==
    LET opt == Find(options, <<"i", "d">>, id)
    IN  IF opt.t = "throw" THEN opt
        ELSE OrElse(OrElse(OptGet(opt, <<"l", "a", "b", "e", "l">>), OptGet(opt, <<"n", "a", "m", "e">>)), id)

RECURSIVE MapLabels(_, _, _)
\* value.map(id => ...) from index i: the array of the results, or the
\* first exception a callback raises
MapLabels(a, options, i) ==
    IF i > Len(a) THEN Arr(<<>>)
    ELSE LET head == ResolveLabel(options, a[i])
         IN  IF head.t = "throw" THEN head
             ELSE LET rest == MapLabels(a, options, i + 1)
                  IN  IF rest.t = "throw" THEN rest ELSE Arr(<<head>> \o rest.a)

labels(value, options) ==
    IF IsArray(value) /\ Truthy(options) THEN MapLabels(value.a, options, 1)
    ELSE value

\* mutant of drop_down: the value is tested for truth, not for its type
drop_down_truthyValue(value, options) ==
    IF Truthy(options) /\ Truthy(value)
    THEN LET opt == Find(options, <<"o", "r", "d", "e", "r", "i", "n", "d", "e", "x">>, value)
         IN  IF opt.t = "throw" THEN opt ELSE OrElse(OptGet(opt, <<"n", "a", "m", "e">>), value)
    ELSE value

drop_down(value, options) ==
    IF Truthy(options) /\ TypeOf(value) = "number"
    THEN LET opt == Find(options, <<"o", "r", "d", "e", "r", "i", "n", "d", "e", "x">>, value)
         IN  IF opt.t = "throw" THEN opt ELSE OrElse(OptGet(opt, <<"n", "a", "m", "e">>), value)
    ELSE value

currency(value, type_config) ==
    IF Truthy(value)
    THEN Str(ToString(value) \o <<" ">>
             \o ToString(OrElse(OptGet(type_config, <<"c", "u", "r", "r", "e", "n", "c", "y", "_", "t", "y", "p", "e">>), Str(<<"E", "U", "R">>))))
    ELSE Null

\* mutant of date: the time of day is not cut off
date_withTime(value) ==
    IF Truthy(value) THEN ToISOString(NewDate(ParseInt(value))) ELSE Null

date(value) ==
    IF Truthy(value)
    THEN LET iso == ToISOString(NewDate(ParseInt(value)))
         IN  IF iso.t = "throw" THEN iso ELSE Str(UpTo(iso.s, "T"))
    ELSE Null

checkbox(value) == IF Truthy(value) THEN Str(<<"Y", "e", "s">>) ELSE Str(<<"N", "o">>)

location(value) == OrElse(OptGet(value, <<"f", "o", "r", "m", "a", "t", "t", "e", "d", "_", "a", "d", "d", "r", "e", "s", "s">>), value)

\* mutant of default: String(value) in place of JSON.stringify(value)
default_toString(value) ==
    IF TypeOf(value) = "object" THEN Str(ToString(value)) ELSE value

default(value) ==
    IF TypeOf(value) = "object" THEN Str(JSONStringify(value)) ELSE value

\* mutant of IsAbsent: null is not tested for
IsAbsent_onlyUndefined(f) == ~Truthy(f) \/ Get(f, <<"v", "a", "l", "u", "e">>) = Undefined

\* mutant of IsAbsent: every falsy value counts as absent
IsAbsent_falsy(f) == ~Truthy(f) \/ ~Truthy(Get(f, <<"v", "a", "l", "u", "e">>))

\* the absent-value rule that opens resolveCustomFieldValue
IsAbsent(f) ==
    \/ ~Truthy(f)
    \/ Get(f, <<"v", "a", "l", "u", "e">>) = Undefined
    \/ Get(f, <<"v", "a", "l", "u", "e">>) = Null

PassthroughTypes ==
    {Str(<<"n", "u", "m", "b", "e", "r">>), Str(<<"t", "e", "x", "t">>), Str(<<"s", "h", "o", "r", "t", "_", "t", "e", "x", "t">>), Str(<<"e", "m", "a", "i", "l">>),
     Str(<<"u", "r", "l">>), Str(<<"p", "h", "o", "n", "e">>)}

resolveCustomFieldValue(f) ==
    IF IsAbsent(f) THEN Null
    ELSE
      LET type == Get(f, <<"t", "y", "p", "e">>)
          value == Get(f, <<"v", "a", "l", "u", "e">>)
          type_config == Get(f, <<"t", "y", "p", "e", "_", "c", "o", "n", "f", "i", "g">>)
          options == OptGet(type_config, <<"o", "p", "t", "i", "o", "n", "s">>)
      IN  CASE type = Str(<<"l", "a", "b", "e", "l", "s">>) -> labels(value, options)
            [] type = Str(<<"d", "r", "o", "p", "_", "d", "o", "w", "n">>) -> drop_down(value, options)
            [] type = Str(<<"c", "u", "r", "r", "e", "n", "c", "y">>) -> currency(value, type_config)
            [] type = Str(<<"d", "a", "t", "e">>) -> date(value)
            [] type = Str(<<"c", "h", "e", "c", "k", "b", "o", "x">>) -> checkbox(value)
            [] type \in PassthroughTypes -> value
            [] type = Str(<<"l", "o", "c", "a", "t", "i", "o", "n">>) -> location(value)
            [] OTHER -> default(value)

---------------------------------------------------------------------------
(* The field records a call may be given *)

\* longest array of label ids in a value
MaxIds == 2

\* longest options list in a type_config
MaxOptions == 2

\* days on each side of a calendar boundary taken as date values
DaySpan == 1

\* marks a property an object literal leaves out
Absent == [t |-> "absent"]

\* the object with the given properties, those marked Absent left out
Object(props) == Obj(SelectSeq(props, LAMBDA p : p.v # Absent))

SeqsUpTo(S, n) == UNION {[1..k -> S] : k \in 0..n}

KnownTypes ==
    {Str(<<"l", "a", "b", "e", "l", "s">>), Str(<<"d", "r", "o", "p", "_", "d", "o", "w", "n">>), Str(<<"c", "u", "r", "r", "e", "n", "c", "y">>), Str(<<"d", "a", "t", "e">>),
     Str(<<"c", "h", "e", "c", "k", "b", "o", "x">>), Str(<<"l", "o", "c", "a", "t", "i", "o", "n">>)} \cup PassthroughTypes

\* "users" stands for the types the switch does not name
Types == KnownTypes \cup {Str(<<"u", "s", "e", "r", "s">>), Absent}

Names == {Str(<<"P", "r", "i", "o">>), Str(<<"C", "o", "s", "t">>)}

Ids == {Str(<<"i", "d", "1">>), Str(<<"i", "d", "2">>), Str(<<"i", "d", "3">>)}

LabelOptions ==
    {Object(<<Prop(<<"i", "d">>, i), Prop(<<"l", "a", "b", "e", "l">>, l), Prop(<<"n", "a", "m", "e">>, n)>>) :
        i \in {Str(<<"i", "d", "1">>), Str(<<"i", "d", "2">>)},
        l \in {Absent, Str(<<>>), Str(<<"L", "o", "w">>)},
        n \in {Absent, Str(<<"U", "r", "g", "e", "n", "t">>)}}

DropDownOptions ==
    {Object(<<Prop(<<"i", "d">>, Str(<<"i", "d", "1">>)), Prop(<<"n", "a", "m", "e">>, n), Prop(<<"o", "r", "d", "e", "r", "i", "n", "d", "e", "x">>, o)>>) :
        n \in {Absent, Str(<<>>), Str(<<"T", "o", "d", "o">>), Str(<<"D", "o", "n", "e">>)},
        o \in {Num(0), Num(2)}}

OptionsConfig(options) == Object(<<Prop(<<"o", "p", "t", "i", "o", "n", "s">>, options)>>)

\* type_config values of any shape, malformed ones included
GeneralConfigs ==
    {Absent, Null, Obj(<<>>),
     Object(<<Prop(<<"c", "u", "r", "r", "e", "n", "c", "y", "_", "t", "y", "p", "e">>, Str(<<"U", "S", "D">>))>>),
     Object(<<Prop(<<"c", "u", "r", "r", "e", "n", "c", "y", "_", "t", "y", "p", "e">>, Str(<<>>))>>),
     OptionsConfig(Arr(<<>>)),
     OptionsConfig(Arr(<<
        Object(<<Prop(<<"i", "d">>, Str(<<"i", "d", "1">>)), Prop(<<"n", "a", "m", "e">>, Str(<<"U", "r", "g", "e", "n", "t">>)),
                 Prop(<<"o", "r", "d", "e", "r", "i", "n", "d", "e", "x">>, Num(0))>>),
        Object(<<Prop(<<"i", "d">>, Str(<<"i", "d", "2">>)), Prop(<<"l", "a", "b", "e", "l">>, Str(<<"L", "o", "w">>)),
                 Prop(<<"o", "r", "d", "e", "r", "i", "n", "d", "e", "x">>, Num(2)), Prop(<<"n", "a", "m", "e">>, Str(<<"D", "o", "n", "e">>))>>)>>)),
     OptionsConfig(Arr(<<Null>>)),
     OptionsConfig(Obj(<<>>)),
     OptionsConfig(Str(<<"n", "o", "n", "e">>))}

\* values of any shape, for every type
GeneralValues ==
    {Absent, Undefined, Null, Bool(FALSE), Bool(TRUE),
     Num(0), Num(2), Num(9), Num(42), Num(-5),
     Str(<<>>), Str(<<"a", "b", "c">>), Str(<<"0">>), Str(<<"1", "7", "0", "0", "0", "0", "0", "0", "0", "0", "0", "0", "0">>),
     Arr(<<>>), Arr(<<Str(<<"i", "d", "1">>), Str(<<"i", "d", "2">>)>>), Arr(<<Num(1), Null>>),
     Obj(<<>>),
     Object(<<Prop(<<"l", "a", "t">>, Num(52)), Prop(<<"f", "o", "r", "m", "a", "t", "t", "e", "d", "_", "a", "d", "d", "r", "e", "s", "s">>, Str(<<"M", "a", "i", "n", " ", "S", "t">>))>>),
     Object(<<Prop(<<"l", "a", "t">>, Num(52)), Prop(<<"l", "n", "g">>, Num(4))>>),
     Object(<<Prop(<<"f", "o", "r", "m", "a", "t", "t", "e", "d", "_", "a", "d", "d", "r", "e", "s", "s">>, Str(<<>>)), Prop(<<"t", "a", "g", "s">>, Arr(<<Str(<<"a">>)>>))>>)}

\* days since the epoch next to which date values are taken: the epoch,
\* the ends of February in 1970, 1972, 1900, 2000 and 2100, the end of
\* 1999, 14 Nov 2023, the first and the last day whose year has four
\* digits (1 Jan 0000 and 31 Dec 9999), and the first of every month of
\* 2023 and of the leap year 2024
BoundaryDays ==
    {0, 58, 789, -25509, 11016, 47540, 10956, 19675, -719528, 2932896}
    \cup {19358, 19389, 19417, 19448, 19478, 19509, 19539, 19570, 19601, 19631, 19662, 19692}
    \cup {19723, 19754, 19783, 19814, 19844, 19875, 19905, 19936, 19967, 19997, 20028, 20058}

DateDays == {b + k : b \in BoundaryDays, k \in (-DaySpan)..DaySpan}

TimesOfDay == {0, 1, 43200000, 80000000, msPerDay - 1}

\* the digits of the natural number hi * 10^8 + lo, lo < 10^8
LimbsToString(hi, lo) ==
    IF hi = 0 THEN NatToString(lo) ELSE NatToString(hi) \o PadStart(NatToString(lo), 8)

\* the digits of day * msPerDay + ms for day >= 0, by long multiplication
MillisToString(day, ms) ==
    LET mid == (day % 1000) * 864 + (ms \div 100000)
    IN  LimbsToString((day \div 1000) * 864 + (mid \div 1000),
                      (mid % 1000) * 100000 + (ms % 100000))

\* the epoch milliseconds of time ms of day number day, as a numeric string
EpochString(day, ms) ==
    IF day >= 0 THEN MillisToString(day, ms)
    ELSE IF ms = 0 THEN <<"-">> \o MillisToString(-day, 0)
    ELSE <<"-">> \o MillisToString(-day - 1, msPerDay - ms)

\* values of a date field: numeric strings and malformed ones
DateValues ==
    {Str(EpochString(d, ms)) : d \in DateDays, ms \in TimesOfDay}
    \cup {Str(<<"1", "2", "a", "b", "c">>), Str(<<" ", "4", "2">>), Str(<<"+", "8", "6", "4", "0", "0", "0", "0", "0">>), Str(<<"0", "x", "5", "2", "6", "5", "C", "0", "0">>),
          Str(<<"-">>), Str(<<"2", "5", "3", "4", "0", "2", "3", "0", "0", "8", "0", "0", "0", "0", "0">>), Str(<<"-", "6", "2", "1", "9", "8", "7", "5", "5", "2", "0", "0", "0", "0", "1">>),
          Str(<<"8", "6", "4", "0", "0", "0", "0", "0", "0", "0", "0", "0", "0", "0", "0", "0">>), Str(<<"8", "6", "4", "0", "0", "0", "0", "0", "0", "0", "0", "0", "0", "0", "0", "1">>),
          Str(<<"-", "8", "6", "4", "0", "0", "0", "0", "0", "0", "0", "0", "0", "0", "0", "0", "1">>), Str(<<"9", "9", "9", "9", "9", "9", "9", "9", "9", "9", "9", "9", "9", "9", "9", "9", "9", "9", "9", "9", "9", "9", "9">>)}

Field(name, type, type_config, value) ==
    Object(<<Prop(<<"i", "d">>, Str(<<"f", "1">>)), Prop(<<"n", "a", "m", "e">>, name), Prop(<<"t", "y", "p", "e">>, type),
             Prop(<<"t", "y", "p", "e", "_", "c", "o", "n", "f", "i", "g">>, type_config), Prop(<<"v", "a", "l", "u", "e">>, value)>>)

\* records of every type with values and type_configs of any shape
GeneralFields ==
    {Field(n, t, c, v) : n \in Names, t \in Types, c \in GeneralConfigs,
                         v \in GeneralValues}

\* labels fields: arrays of ids against lists of option records
LabelsFields ==
    {Field(Str(<<"T", "a", "g", "s">>), Str(<<"l", "a", "b", "e", "l", "s">>), OptionsConfig(Arr(o)), Arr(v)) :
        o \in SeqsUpTo(LabelOptions, MaxOptions), v \in SeqsUpTo(Ids, MaxIds)}

\* drop_down fields: an order index against lists of option records
DropDownFields ==
    {Field(Str(<<"S", "t", "a", "g", "e">>), Str(<<"d", "r", "o", "p", "_", "d", "o", "w", "n">>), OptionsConfig(Arr(o)), v) :
        o \in SeqsUpTo(DropDownOptions, MaxOptions), v \in {Num(0), Num(2), Num(9)}}

DateFields == {Field(Str(<<"D", "u", "e">>), Str(<<"d", "a", "t", "e">>), Absent, v) : v \in DateValues}

\* arguments that are no record at all
NonRecords == {Undefined, Null, Bool(FALSE), Num(5), Str(<<"f", "1">>), Arr(<<>>)}

---------------------------------------------------------------------------
(* The state machine: one call of resolveCustomFieldValue on a record *)

Pending == [t |-> "pending"]

\* no tool handler has been invoked
NoHandler ==
    /\ args = Pending
    /\ returned = Pending
    /\ requests = <<>>
    /\ calls = <<>>

Init ==
    /\ \/ field \in GeneralFields
       \/ field \in LabelsFields
       \/ field \in DropDownFields
       \/ field \in DateFields
       \/ field \in NonRecords
    /\ result = Pending
    /\ pc = "call"
    /\ task = Pending
    /\ heap = <<>>
    /\ comment = Pending
    /\ processedComment = Pending
    /\ NoHandler

\* mutant of Resolve: the result is stored on the record
Resolve_storing ==
    /\ pc = "call"
    /\ result' = resolveCustomFieldValue(field)
    /\ pc' = "done"
    /\ field' = IF field.t = "object"
                THEN Obj(field.p \o <<Prop(<<"r", "e", "s", "o", "l", "v", "e", "d", "_", "v", "a", "l", "u", "e">>, resolveCustomFieldValue(field))>>)
                ELSE field
    /\ UNCHANGED <<task, heap, comment, processedComment, args, returned, requests, calls>>

\* the call runs to completion; the function assigns to nothing it is given
Resolve ==
    /\ pc = "call"
    /\ result' = resolveCustomFieldValue(field)
    /\ pc' = "done"
    /\ UNCHANGED <<field, task, heap, comment, processedComment, args, returned, requests, calls>>

Next == Resolve

Spec == Init /\ [][Next]_vars

---------------------------------------------------------------------------
(* Properties of resolveCustomFieldValue *)

Done == pc = "done"

TheType == Get(field, <<"t", "y", "p", "e">>)

TheValue == Get(field, <<"v", "a", "l", "u", "e">>)

TheConfig == Get(field, <<"t", "y", "p", "e", "_", "c", "o", "n", "f", "i", "g">>)

\* the type_config carries an options property
OptionsPresent == TheConfig.t = "object" /\ HasOwn(TheConfig, <<"o", "p", "t", "i", "o", "n", "s">>)

TheOptions == Get(TheConfig, <<"o", "p", "t", "i", "o", "n", "s">>)

\* the options are a list of option records, as the API documents them
OptionsAreRecords ==
    /\ OptionsPresent
    /\ TheOptions.t = "array"
    /\ \A j \in 1..Len(TheOptions.a) : TheOptions.a[j].t = "object"

\* property k of option record o is there and is a non-empty string
Named(o, k) == o.t = "object" /\ HasOwn(o, k) /\ Get(o, k).t = "string" /\ Get(o, k).s # <<>>

\* the first option whose property k holds x (there is one)
FirstOption(k, x) ==
    LET at == {j \in 1..Len(TheOptions.a) : Get(TheOptions.a[j], k) = x}
    IN  TheOptions.a[CHOOSE j \in at : \A i \in at : j <= i]

SomeOption(k, x) == \E j \in 1..Len(TheOptions.a) : Get(TheOptions.a[j], k) = x

\* C1: a record whose value is absent, undefined or null resolves to null
\* whatever its type and type_config; false, 0 and "" are not absent: the
\* passthrough types return them and a checkbox shows them as "No".
C1_AbsentValueIsNull ==
    Done =>
      /\ TheValue \in {Undefined, Null} => result = Null
      /\ field.t = "object" /\ TheValue \in {Bool(FALSE), Num(0), Str(<<>>)} =>
            /\ ~IsAbsent(field)
            /\ TheType \in PassthroughTypes => result = TheValue
            /\ TheType = Str(<<"c", "h", "e", "c", "k", "b", "o", "x">>) => result = Str(<<"N", "o">>)

C1_Witness ==
    /\ Done
    /\ TheType = Str(<<"c", "h", "e", "c", "k", "b", "o", "x">>)
    /\ HasOwn(field, <<"v", "a", "l", "u", "e">>)
    /\ TheValue = Null
    /\ OptionsPresent
    /\ result = Null

\* C2: resolveCustomFieldValue never raises, whatever the record holds.
C2_NeverRaises == Done => result.t # "throw"

\* the label shown for id by the first option that has this id
ExpectedLabel(id) ==
    IF ~SomeOption(<<"i", "d">>, id) THEN id
    ELSE LET o == FirstOption(<<"i", "d">>, id)
         IN  IF Named(o, <<"l", "a", "b", "e", "l">>) THEN Get(o, <<"l", "a", "b", "e", "l">>)
             ELSE IF Named(o, <<"n", "a", "m", "e">>) THEN Get(o, <<"n", "a", "m", "e">>)
             ELSE id

\* C3: a labels field whose value is an array of ids resolves, when
\* type_config.options is a list of option records, to an array of the same
\* length and order holding for each id the label of the option with that id,
\* else that option's name, else the id itself; with no options it resolves
\* to the array as it is.
C3_LabelsResolved ==
    Done /\ TheType = Str(<<"l", "a", "b", "e", "l", "s">>) /\ TheValue.t = "array" =>
      /\ OptionsAreRecords =>
            /\ result.t = "array"
            /\ Len(result.a) = Len(TheValue.a)
            /\ \A i \in 1..Len(TheValue.a) : result.a[i] = ExpectedLabel(TheValue.a[i])
      /\ ~OptionsPresent => result = TheValue

C3_Witness ==
    /\ Done
    /\ TheType = Str(<<"l", "a", "b", "e", "l", "s">>)
    /\ TheValue = Arr(<<Str(<<"i", "d", "1">>), Str(<<"i", "d", "2">>)>>)
    /\ OptionsAreRecords
    /\ Len(TheOptions.a) = 2
    /\ result = Arr(<<Str(<<"U", "r", "g", "e", "n", "t">>), Str(<<"L", "o", "w">>)>>)

\* C4, as stated: a drop_down field with a numeric value resolves to the
\* name of the option whose orderindex is the value, and to the value itself
\* when there is no such option or no options.
C4_NameOfMatchingOption ==
    Done /\ TheType = Str(<<"d", "r", "o", "p", "_", "d", "o", "w", "n">>) /\ TheValue.t = "number" =>
      /\ OptionsAreRecords /\ SomeOption(<<"o", "r", "d", "e", "r", "i", "n", "d", "e", "x">>, TheValue)
            /\ HasOwn(FirstOption(<<"o", "r", "d", "e", "r", "i", "n", "d", "e", "x">>, TheValue), <<"n", "a", "m", "e">>) =>
            result = Get(FirstOption(<<"o", "r", "d", "e", "r", "i", "n", "d", "e", "x">>, TheValue), <<"n", "a", "m", "e">>)
      /\ OptionsAreRecords /\ ~SomeOption(<<"o", "r", "d", "e", "r", "i", "n", "d", "e", "x">>, TheValue) => result = TheValue
      /\ ~OptionsPresent => result = TheValue

\* C4, amended: a drop_down field with a numeric value (0 included)
\* resolves to the name of the first option whose orderindex is the value
\* when that name is a non-empty string; it resolves to the value itself
\* when that name is empty or missing, when no option has that orderindex
\* and when there are no options.
C4_DropDownResolved ==
    Done /\ TheType = Str(<<"d", "r", "o", "p", "_", "d", "o", "w", "n">>) /\ TheValue.t = "number" =>
      /\ OptionsAreRecords /\ SomeOption(<<"o", "r", "d", "e", "r", "i", "n", "d", "e", "x">>, TheValue) =>
            LET o == FirstOption(<<"o", "r", "d", "e", "r", "i", "n", "d", "e", "x">>, TheValue)
            IN  result = IF Named(o, <<"n", "a", "m", "e">>) THEN Get(o, <<"n", "a", "m", "e">>) ELSE TheValue
      /\ OptionsAreRecords /\ ~SomeOption(<<"o", "r", "d", "e", "r", "i", "n", "d", "e", "x">>, TheValue) => result = TheValue
      /\ ~OptionsPresent => result = TheValue

C4_Witness ==
    /\ Done
    /\ TheType = Str(<<"d", "r", "o", "p", "_", "d", "o", "w", "n">>)
    /\ TheValue = Num(0)
    /\ OptionsAreRecords
    /\ Len(TheOptions.a) = 2
    /\ Get(TheOptions.a[1], <<"o", "r", "d", "e", "r", "i", "n", "d", "e", "x">>) = Num(2)
    /\ result = Str(<<"T", "o", "d", "o">>)

\* the currency code of the record: currency_type, EUR when there is none
CurrencyCode ==
    IF Named(TheConfig, <<"c", "u", "r", "r", "e", "n", "c", "y", "_", "t", "y", "p", "e">>) THEN Get(TheConfig, <<"c", "u", "r", "r", "e", "n", "c", "y", "_", "t", "y", "p", "e">>).s
    ELSE <<"E", "U", "R">>

\* C5: a currency field with any amount, 0 included, resolves to
\* "<value> <currency code>", the code being EUR when none is configured.
C5_CurrencyFormatted ==
    Done /\ TheType = Str(<<"c", "u", "r", "r", "e", "n", "c", "y">>) /\ TheValue.t = "number" =>
      result = Str(IntToString(TheValue.n) \o <<" ">> \o CurrencyCode)

\* days since the epoch of the civil date y-m-d
DaysFromCivil(y, m, d) ==
    LET yy == IF m <= 2 THEN y - 1 ELSE y
        era == yy \div 400
        yoe == yy - era * 400
        doy == ((153 * (IF m > 2 THEN m - 3 ELSE m + 9) + 2) \div 5) + d - 1
        doe == yoe * 365 + (yoe \div 4) - (yoe \div 100) + doy
    IN  era * 146097 + doe - 719468

IsDecimal(s) == \A i \in 1..Len(s) : DigitValue(s[i]) < 10

RECURSIVE DecimalValue(_)
DecimalValue(s) ==
    IF s = <<>> THEN 0 ELSE 10 * DecimalValue(SubSeq(s, 1, Len(s) - 1)) + DigitValue(s[Len(s)])

\* s reads YYYY-MM-DD and names day number day
IsDateOfDay(s, day) ==
    /\ Len(s) = 10
    /\ s[5] = "-" /\ s[8] = "-"
    /\ IsDecimal(SubSeq(s, 1, 4)) /\ IsDecimal(SubSeq(s, 6, 7)) /\ IsDecimal(SubSeq(s, 9, 10))
    /\ LET y == DecimalValue(SubSeq(s, 1, 4))
           m == DecimalValue(SubSeq(s, 6, 7))
           d == DecimalValue(SubSeq(s, 9, 10))
       IN  /\ m \in 1..12
           /\ d \in 1..31
           /\ DaysFromCivil(y, m, d) = day
           /\ DaysFromCivil(y, m, 1) <= day
           /\ day < DaysFromCivil(IF m = 12 THEN y + 1 ELSE y, IF m = 12 THEN 1 ELSE m + 1, 1)

\* the days whose year has four digits, 0000 to 9999
FourDigitYearDays == DaysFromCivil(0, 1, 1)..DaysFromCivil(9999, 12, 31)

C7_CheckboxYesNo ==
    Done /\ field.t = "object" /\ TheType = Str(<<"c", "h", "e", "c", "k", "b", "o", "x">>)
         /\ TheValue \notin {Undefined, Null} =>
      result = IF TheValue \in {Bool(FALSE), Num(0), Str(<<>>)}
               THEN Str(<<"N", "o">>) ELSE Str(<<"Y", "e", "s">>)

C7_Witness ==
    /\ Done
    /\ TheType = Str(<<"c", "h", "e", "c", "k", "b", "o", "x">>)
    /\ TheValue = Bool(FALSE)
    /\ result = Str(<<"N", "o">>)

\* the JSON texts of the structured values the model holds
SerializedForms ==
    {<<Arr(<<>>), <<"[", "]">>>>,
     <<Arr(<<Str(<<"i", "d", "1">>), Str(<<"i", "d", "2">>)>>), <<"[", "\"", "i", "d", "1", "\"", ",", "\"", "i", "d", "2", "\"", "]">>>>,
     <<Arr(<<Num(1), Null>>), <<"[", "1", ",", "n", "u", "l", "l", "]">>>>,
     <<Obj(<<>>), <<"{", "}">>>>,
     <<Obj(<<Prop(<<"l", "a", "t">>, Num(52)), Prop(<<"f", "o", "r", "m", "a", "t", "t", "e", "d", "_", "a", "d", "d", "r", "e", "s", "s">>, Str(<<"M", "a", "i", "n", " ", "S", "t">>))>>),
       <<"{", "\"", "l", "a", "t", "\"", ":", "5", "2", ",", "\"", "f", "o", "r", "m", "a", "t", "t", "e", "d", "_", "a", "d", "d", "r", "e", "s", "s", "\"", ":", "\"", "M", "a", "i", "n", " ", "S", "t", "\"", "}">>>>,
     <<Obj(<<Prop(<<"l", "a", "t">>, Num(52)), Prop(<<"l", "n", "g">>, Num(4))>>), <<"{", "\"", "l", "a", "t", "\"", ":", "5", "2", ",", "\"", "l", "n", "g", "\"", ":", "4", "}">>>>,
     <<Obj(<<Prop(<<"f", "o", "r", "m", "a", "t", "t", "e", "d", "_", "a", "d", "d", "r", "e", "s", "s">>, Str(<<>>)), Prop(<<"t", "a", "g", "s">>, Arr(<<Str(<<"a">>)>>))>>),
       <<"{", "\"", "f", "o", "r", "m", "a", "t", "t", "e", "d", "_", "a", "d", "d", "r", "e", "s", "s", "\"", ":", "\"", "\"", ",", "\"", "t", "a", "g", "s", "\"", ":", "[", "\"", "a", "\"", "]", "}">>>>}

\* C8: a field of a type the switch does not name resolves to the JSON
\* text of its value when the value is an object or an array, and to the
\* value itself otherwise.
C8_DefaultSerializes ==
    Done /\ field.t = "object" /\ TheType \notin KnownTypes
         /\ TheValue \notin {Undefined, Null} =>
      IF TheValue.t \in {"array", "object"}
      THEN result.t = "string" /\ <<TheValue, result.s>> \in SerializedForms
      ELSE result = TheValue

C8_Witness ==
    /\ Done
    /\ TheType = Str(<<"u", "s", "e", "r", "s">>)
    /\ TheValue = Arr(<<Str(<<"i", "d", "1">>), Str(<<"i", "d", "2">>)>>)
    /\ result = Str(<<"[", "\"", "i", "d", "1", "\"", ",", "\"", "i", "d", "2", "\"", "]">>)

IsPrimitive(v) == v.t \in {"boolean", "number", "string"}

\* C9: whenever a call returns, the result is null, a string, an array of
\* strings or the record's primitive value passed through, never a
\* structured object.
C9_DisplayShape ==
    Done /\ result.t # "throw" =>
      \/ result = Null
      \/ result.t = "string"
      \/ result.t = "array" /\ \A i \in 1..Len(result.a) : result.a[i].t = "string"
      \/ IsPrimitive(result) /\ result = TheValue

\* records that agree with f on type, value and type_config and differ in
\* their other properties and in the order of the properties
Variants(f) ==
    LET own(k) == IF HasOwn(f, k) THEN Get(f, k) ELSE Absent
    IN  {Object(<<Prop(<<"v", "a", "l", "u", "e">>, own(<<"v", "a", "l", "u", "e">>)), Prop(<<"n", "a", "m", "e">>, n),
                  Prop(<<"r", "e", "s", "o", "l", "v", "e", "d", "_", "v", "a", "l", "u", "e">>, r), Prop(<<"t", "y", "p", "e", "_", "c", "o", "n", "f", "i", "g">>, own(<<"t", "y", "p", "e", "_", "c", "o", "n", "f", "i", "g">>)),
                  Prop(<<"t", "y", "p", "e">>, own(<<"t", "y", "p", "e">>))>>) :
            n \in Names \cup {Absent, Str(<<"i", "d", "3">>)},
            r \in {Absent, Str(<<"U", "r", "g", "e", "n", "t">>), Null}}

\* C10: a call leaves the record, its value and its type_config (options
\* and their order included) as they were, and every record that agrees
\* with it on type, value and type_config resolves to the same result.
C10_PureFunction ==
    [][pc = "call" /\ pc' = "done" =>
          /\ field' = field
          /\ field.t = "object" =>
                \A g \in Variants(field) : resolveCustomFieldValue(g) = result'
      ]_vars

C10_Witness ==
    /\ Done
    /\ TheType = Str(<<"l", "a", "b", "e", "l", "s">>)
    /\ OptionsAreRecords
    /\ Len(TheOptions.a) = 2
    /\ field \notin Variants(field)
    /\ result = Arr(<<Str(<<"L", "o", "w">>), Str(<<"i", "d", "3">>)>>)


---------------------------------------------------------------------------
(* resolveTaskCustomFields and createCompactTaskSummary.  The field       *)
(* records of a task are objects in memory: the custom_fields array holds *)
(* references into the heap, so that a copy and the original record are   *)
(* told apart.                                                            *)

Ref(r) == [t |-> "ref", r |-> r]

\* the value an array element stands for
Deref(h, v) == IF v.t = "ref" THEN h[v.r] ELSE v

\* o.k = v on an object: an own property keeps its place, a new one goes last
SetProp(o, k, v) ==
    IF HasOwn(o, k)
    THEN Obj([i \in 1..Len(o.p) |-> IF o.p[i].k = k THEN Prop(k, v) ELSE o.p[i]])
    ELSE Obj(o.p \o <<Prop(k, v)>>)

\* the own enumerable properties {...v} copies: those of an object, the
\* indexed elements of an array or a string, none of any other value
Spread(v) ==
    CASE v.t = "object" -> v.p
      [] v.t = "string" -> [i \in 1..Len(v.s) |-> Prop(NatToString(i - 1), Str(<<v.s[i]>>))]
      [] v.t = "array" -> [i \in 1..Len(v.a) |-> Prop(NatToString(i - 1), v.a[i])]
      [] OTHER -> <<>>

\* the completion of a.map(F), r being the completions of the calls of F
\* on the elements: the array of the results, or the first exception raised
Collect(r) ==
    LET raised == {i \in 1..Len(r) : r[i].t = "throw"}
    IN  IF raised = {} THEN Arr(r)
        ELSE r[CHOOSE i \in raised : \A j \in raised : i <= j]

\* a.k in a callback: reading a property of null or undefined raises
PropOf(a, k) == IF a.t \in {"undefined", "null"} THEN Throw("TypeError") ELSE Get(a, k)

\* ({...field, resolved_value: r}) for the completion r of the resolver:
\* the copy, or the exception the resolver raised
WithResolved(f, r) ==
    IF r.t = "throw" THEN r ELSE SetProp(Obj(Spread(f)), <<"r", "e", "s", "o", "l", "v", "e", "d", "_", "v", "a", "l", "u", "e">>, r)

\* the callback of resolveTaskCustomFields:
\* ({...field, resolved_value: resolveCustomFieldValue(field)})
ResolvedCopy(f) == WithResolved(f, resolveCustomFieldValue(f))

\* the outcome of a call on task t with heap h: the task and the heap after
\* it and its completion (the value returned or the exception raised)
Outcome(t, h, c) == [task |-> t, heap |-> h, completion |-> c]

\* the copies c are written over the records the list a refers to
Overwritten(h, a, c) ==
    LET at(r) == CHOOSE i \in 1..Len(a) : a[i] = Ref(r)
    IN  [r \in 1..Len(h) |->
            IF \E i \in 1..Len(a) : a[i] = Ref(r) THEN c[at(r)] ELSE h[r]]

\* mutant of Assigned: resolved_value is assigned to the records themselves
Assigned_inPlace(t, h, copies) ==
    IF copies.t = "throw" THEN Outcome(t, h, copies)
    ELSE Outcome(t, Overwritten(h, Get(t, <<"c", "u", "s", "t", "o", "m", "_", "f", "i", "e", "l", "d", "s">>).a, copies.a), t)

\* task.custom_fields = copies, for the completion copies of the map: the
\* copies are new objects in memory and the task is returned; an exception
\* leaves the task as it was
Assigned(t, h, copies) ==
    IF copies.t = "throw" THEN Outcome(t, h, copies)
    ELSE Outcome(SetProp(t, <<"c", "u", "s", "t", "o", "m", "_", "f", "i", "e", "l", "d", "s">>,
                         Arr([i \in 1..Len(copies.a) |-> Ref(Len(h) + i)])),
                 h \o copies.a,
                 SetProp(t, <<"c", "u", "s", "t", "o", "m", "_", "f", "i", "e", "l", "d", "s">>,
                         Arr([i \in 1..Len(copies.a) |-> Ref(Len(h) + i)])))

resolveTaskCustomFields(t, h) ==
    LET fields == Get(t, <<"c", "u", "s", "t", "o", "m", "_", "f", "i", "e", "l", "d", "s">>)
    IN  IF ~Truthy(fields) \/ ~IsArray(fields) THEN Outcome(t, h, t)
        ELSE Assigned(t, h, Collect([i \in 1..Len(fields.a) |->
                                        ResolvedCopy(Deref(h, fields.a[i]))]))

RECURSIVE TrimEnd(_)
TrimEnd(s) ==
    IF s # <<>> /\ IsWhiteSpace(s[Len(s)]) THEN TrimEnd(SubSeq(s, 1, Len(s) - 1)) ELSE s

RECURSIVE DigitsToNat(_)
DigitsToNat(s) ==
    IF s = <<>> THEN 0
    ELSE 10 * DigitsToNat(SubSeq(s, 1, Len(s) - 1)) + DigitValue(s[Len(s)])

\* StringToNumber for the literals the model holds: white space is trimmed,
\* the empty string is 0, a signed run of decimal digits is its value and
\* any other text is NaN
StringToNumber(s) ==
    LET t == TrimEnd(TrimStart(s))
        signed == t # <<>> /\ t[1] \in {"+", "-"}
        digits == IF signed THEN SubSeq(t, 2, Len(t)) ELSE t
    IN  IF t = <<>> THEN Num(0)
        ELSE IF digits = <<>> \/ \E i \in 1..Len(digits) : DigitValue(digits[i]) >= 10 THEN NaN
        ELSE Num(IF signed /\ t[1] = "-" THEN -DigitsToNat(digits) ELSE DigitsToNat(digits))

\* ToNumber(v), as applied by / and by >
ToNumber(v) ==
    CASE v.t \in {"number", "nan"} -> v
      [] v.t = "undefined" -> NaN
      [] v.t = "null" -> Num(0)
      [] v.t = "boolean" -> Num(IF v.b THEN 1 ELSE 0)
      [] v.t = "string" -> StringToNumber(v.s)
      [] v.t = "array" -> StringToNumber(ToString(v))
      [] OTHER -> NaN

\* Number::toString of tenths / 10, a number with at most one decimal
TenthsToString(tenths) ==
    LET a == IF tenths < 0 THEN -tenths ELSE tenths
    IN  (IF tenths < 0 THEN <<"-">> ELSE <<>>)
        \o NatToString(a \div 10)
        \o (IF a % 10 = 0 THEN <<>> ELSE <<".">> \o <<Digit(a % 10)>>)

\* Math.round(n / 3600000 * 10) / 10 + 'h': Math.round takes a half up, so
\* the tenths of an hour are floor(n / 360000 + 1/2)
Hours(n) ==
    IF n.t = "nan" THEN Str(<<"N", "a", "N", "h">>)
    ELSE Str(TenthsToString((n.n + 180000) \div 360000) \o <<"h">>)

\* task.time_spent ? ... + 'h' : null
time_spent(v) == IF Truthy(v) THEN Hours(ToNumber(v)) ELSE Null

\* a => a.username || a.initials
AssigneeName(a) ==
    IF a.t \in {"undefined", "null"} THEN Throw("TypeError")
    ELSE OrElse(Get(a, <<"u", "s", "e", "r", "n", "a", "m", "e">>), Get(a, <<"i", "n", "i", "t", "i", "a", "l", "s">>))

\* a => a.initials
AssigneeInitials(a) == PropOf(a, <<"i", "n", "i", "t", "i", "a", "l", "s">>)

\* x?.map(a => a.username || a.initials): undefined when x is null or
\* undefined; only an array has a map method
MapNames(x) ==
    IF x.t \in {"undefined", "null"} THEN Undefined
    ELSE IF IsArray(x) THEN Collect([i \in 1..Len(x.a) |-> AssigneeName(x.a[i])])
    ELSE Throw("TypeError")

\* x?.map(a => a.initials)
MapInitials(x) ==
    IF x.t \in {"undefined", "null"} THEN Undefined
    ELSE IF IsArray(x) THEN Collect([i \in 1..Len(x.a) |-> AssigneeInitials(x.a[i])])
    ELSE Throw("TypeError")

\* m || [] for the completion m of a map
OrEmpty(m) == IF m.t = "throw" THEN m ELSE OrElse(m, Arr(<<>>))

\* d.length
Length(d) ==
    CASE d.t = "string" -> Num(Len(d.s))
      [] d.t = "array" -> Num(Len(d.a))
      [] OTHER -> Get(d, <<"l", "e", "n", "g", "t", "h">>)

\* mutant of description: 500 characters are cut too
description_cutAt500(d) ==
    IF d.t = "string" /\ Len(d.s) >= 500
    THEN Str(SubSeq(d.s, 1, 500) \o <<".", ".", ".">>)
    ELSE d

\* the value given to summary.description for a truthy description d:
\* d.length > 500 ? d.substring(0, 500) + '...' : d; only a string has a
\* substring method
description(d) ==
    LET n == ToNumber(Length(d))
    IN  IF n.t = "number" /\ n.n > 500
        THEN IF d.t = "string" THEN Str(SubSeq(d.s, 1, 500) \o <<".", ".", ".">>)
             ELSE Throw("TypeError")
        ELSE d

\* mutant of IsResolved: a falsy resolved value is dropped too
IsResolved_truthy(f) == Truthy(Get(f, <<"r", "e", "s", "o", "l", "v", "e", "d", "_", "v", "a", "l", "u", "e">>))

\* f.resolved_value !== null && f.resolved_value !== undefined
IsResolved(f) ==
    /\ Get(f, <<"r", "e", "s", "o", "l", "v", "e", "d", "_", "v", "a", "l", "u", "e">>) # Null
    /\ Get(f, <<"r", "e", "s", "o", "l", "v", "e", "d", "_", "v", "a", "l", "u", "e">>) # Undefined

\* f => ({name: f.name, value: f.resolved_value})
NameAndValue(f) ==
    Obj(<<Prop(<<"n", "a", "m", "e">>, Get(f, <<"n", "a", "m", "e">>)), Prop(<<"v", "a", "l", "u", "e">>, Get(f, <<"r", "e", "s", "o", "l", "v", "e", "d", "_", "v", "a", "l", "u", "e">>))>>)

\* task.custom_fields.filter(...).map(...) for a truthy custom_fields:
\* only an array has a filter method, and the filter reads a property of
\* every entry
custom_fields(fields, h) ==
    IF ~IsArray(fields) THEN Throw("TypeError")
    ELSE LET entries == [i \in 1..Len(fields.a) |-> Deref(h, fields.a[i])]
         IN  IF \E i \in 1..Len(entries) : entries[i].t \in {"undefined", "null"}
             THEN Throw("TypeError")
             ELSE LET kept == SelectSeq(entries, IsResolved)
                  IN  Arr([i \in 1..Len(kept) |-> NameAndValue(kept[i])])

\* the callback of the subtasks summary
SubtaskSummary(s) ==
    IF s.t \in {"undefined", "null"} THEN Throw("TypeError")
    ELSE LET assignees == OrEmpty(MapInitials(Get(s, <<"a", "s", "s", "i", "g", "n", "e", "e", "s">>)))
         IN  IF assignees.t = "throw" THEN assignees
             ELSE Obj(<<Prop(<<"i", "d">>, Get(s, <<"i", "d">>)),
                        Prop(<<"n", "a", "m", "e">>, Get(s, <<"n", "a", "m", "e">>)),
                        Prop(<<"s", "t", "a", "t", "u", "s">>, OptGet(Get(s, <<"s", "t", "a", "t", "u", "s">>), <<"s", "t", "a", "t", "u", "s">>)),
                        Prop(<<"a", "s", "s", "i", "g", "n", "e", "e", "s">>, assignees)>>)

\* s with property k added when the completion v is a value, the exception
\* when s or v is one
With(s, k, v) ==
    IF s.t = "throw" THEN s
    ELSE IF v.t = "throw" THEN v
    ELSE Obj(s.p \o <<Prop(k, v)>>)

createCompactTaskSummary(t, h) ==
    LET assignees == OrEmpty(MapNames(Get(t, <<"a", "s", "s", "i", "g", "n", "e", "e", "s">>)))
        summary ==
            IF assignees.t = "throw" THEN assignees
            ELSE Obj(<<Prop(<<"i", "d">>, Get(t, <<"i", "d">>)),
                       Prop(<<"n", "a", "m", "e">>, Get(t, <<"n", "a", "m", "e">>)),
                       Prop(<<"s", "t", "a", "t", "u", "s">>, OptGet(Get(t, <<"s", "t", "a", "t", "u", "s">>), <<"s", "t", "a", "t", "u", "s">>)),
                       Prop(<<"d", "a", "t", "e", "_", "c", "r", "e", "a", "t", "e", "d">>, Get(t, <<"d", "a", "t", "e", "_", "c", "r", "e", "a", "t", "e", "d">>)),
                       Prop(<<"d", "a", "t", "e", "_", "u", "p", "d", "a", "t", "e", "d">>, Get(t, <<"d", "a", "t", "e", "_", "u", "p", "d", "a", "t", "e", "d">>)),
                       Prop(<<"s", "t", "a", "r", "t", "_", "d", "a", "t", "e">>, Get(t, <<"s", "t", "a", "r", "t", "_", "d", "a", "t", "e">>)),
                       Prop(<<"d", "u", "e", "_", "d", "a", "t", "e">>, Get(t, <<"d", "u", "e", "_", "d", "a", "t", "e">>)),
                       Prop(<<"t", "i", "m", "e", "_", "s", "p", "e", "n", "t">>, time_spent(Get(t, <<"t", "i", "m", "e", "_", "s", "p", "e", "n", "t">>))),
                       Prop(<<"a", "s", "s", "i", "g", "n", "e", "e", "s">>, assignees)>>)
        described ==
            IF Truthy(Get(t, <<"d", "e", "s", "c", "r", "i", "p", "t", "i", "o", "n">>))
            THEN With(summary, <<"d", "e", "s", "c", "r", "i", "p", "t", "i", "o", "n">>, description(Get(t, <<"d", "e", "s", "c", "r", "i", "p", "t", "i", "o", "n">>)))
            ELSE summary
        fielded ==
            IF Truthy(Get(t, <<"c", "u", "s", "t", "o", "m", "_", "f", "i", "e", "l", "d", "s">>))
            THEN With(described, <<"c", "u", "s", "t", "o", "m", "_", "f", "i", "e", "l", "d", "s">>, custom_fields(Get(t, <<"c", "u", "s", "t", "o", "m", "_", "f", "i", "e", "l", "d", "s">>), h))
            ELSE described
        subtasks == Get(t, <<"s", "u", "b", "t", "a", "s", "k", "s">>)
    IN  IF Truthy(subtasks) /\ IsArray(subtasks)
        THEN With(fielded, <<"s", "u", "b", "t", "a", "s", "k", "s">>, Collect([i \in 1..Len(subtasks.a) |-> SubtaskSummary(subtasks.a[i])]))
        ELSE fielded

---------------------------------------------------------------------------
(* The tasks the task functions may be given *)

\* longest custom_fields list of a task
MaxFields == 2

\* a text of n characters, no two neighbours alike
Text(n) == [i \in 1..n |-> Digit(i % 10)]

TwoOptions ==
    OptionsConfig(Arr(<<
        Object(<<Prop(<<"i", "d">>, Str(<<"i", "d", "1">>)), Prop(<<"n", "a", "m", "e">>, Str(<<"U", "r", "g", "e", "n", "t">>)),
                 Prop(<<"o", "r", "d", "e", "r", "i", "n", "d", "e", "x">>, Num(0))>>),
        Object(<<Prop(<<"i", "d">>, Str(<<"i", "d", "2">>)), Prop(<<"l", "a", "b", "e", "l">>, Str(<<"L", "o", "w">>)),
                 Prop(<<"o", "r", "d", "e", "r", "i", "n", "d", "e", "x">>, Num(2)), Prop(<<"n", "a", "m", "e">>, Str(<<"D", "o", "n", "e">>))>>)>>))

\* entries of a custom_fields list: field records whose resolved value is a
\* text, an array, 0, "", "No" or null, one the resolver raises on, one that
\* carries a resolved_value already, one without a name, and two entries
\* that are no records
FieldPool ==
    {Field(Str(<<"T", "a", "g", "s">>), Str(<<"l", "a", "b", "e", "l", "s">>), TwoOptions, Arr(<<Str(<<"i", "d", "1">>), Str(<<"i", "d", "2">>)>>)),
     Field(Str(<<"T", "a", "g", "s">>), Str(<<"l", "a", "b", "e", "l", "s">>), TwoOptions, Arr(<<>>)),
     Field(Str(<<"S", "t", "a", "g", "e">>), Str(<<"d", "r", "o", "p", "_", "d", "o", "w", "n">>), TwoOptions, Num(2)),
     Field(Str(<<"C", "o", "s", "t">>), Str(<<"c", "u", "r", "r", "e", "n", "c", "y">>), Absent, Num(0)),
     Field(Str(<<"P", "a", "i", "d">>), Str(<<"c", "h", "e", "c", "k", "b", "o", "x">>), Absent, Bool(FALSE)),
     Field(Str(<<"C", "o", "u", "n", "t">>), Str(<<"n", "u", "m", "b", "e", "r">>), Absent, Num(0)),
     Field(Str(<<"N", "o", "t", "e">>), Str(<<"t", "e", "x", "t">>), Absent, Str(<<>>)),
     Field(Str(<<"N", "o", "t", "e">>), Str(<<"t", "e", "x", "t">>), Absent, Null),
     Field(Absent, Str(<<"t", "e", "x", "t">>), Absent, Str(<<"h", "i">>)),
     Field(Str(<<"D", "u", "e">>), Str(<<"d", "a", "t", "e">>), Absent, Str(<<"a", "b", "c">>)),
     Object(<<Prop(<<"n", "a", "m", "e">>, Str(<<"O", "l", "d">>)), Prop(<<"r", "e", "s", "o", "l", "v", "e", "d", "_", "v", "a", "l", "u", "e">>, Str(<<"s", "t", "a", "l", "e">>)),
              Prop(<<"t", "y", "p", "e">>, Str(<<"t", "e", "x", "t">>))>>),
     Null,
     Str(<<"a", "b">>)}

\* the records among the entries fs, in the order they lie in memory
HeapOf(fs) == SelectSeq(fs, LAMBDA f : f.t = "object")

\* the array of the entries fs: a record is held by reference
RefsOf(fs) ==
    Arr([i \in 1..Len(fs) |->
            IF fs[i].t = "object"
            THEN Ref(Cardinality({j \in 1..i : fs[j].t = "object"}))
            ELSE fs[i]])

Statuses ==
    {Absent, Null, Str(<<"o", "p", "e", "n">>), Object(<<Prop(<<"s", "t", "a", "t", "u", "s">>, Str(<<"o", "p", "e", "n">>))>>)}

TimesSpent ==
    {Absent, Null, Num(0), Num(1), Num(179999), Num(180000), Num(3600000),
     Num(5400000), Num(-180001), Str(<<"5", "4", "0", "0", "0", "0", "0">>), Str(<<"a", "b", "c">>), Bool(TRUE)}

Assignees ==
    {Absent, Null, Arr(<<>>),
     Arr(<<Object(<<Prop(<<"u", "s", "e", "r", "n", "a", "m", "e">>, Str(<<"b", "o", "b">>)), Prop(<<"i", "n", "i", "t", "i", "a", "l", "s">>, Str(<<"B">>))>>),
           Object(<<Prop(<<"i", "n", "i", "t", "i", "a", "l", "s">>, Str(<<"A", "L">>))>>)>>),
     Arr(<<Null>>),
     Str(<<"b", "o", "b">>)}

Descriptions ==
    {Absent, Null, Str(<<>>), Str(Text(1)), Str(Text(10)), Str(Text(499)),
     Str(Text(500)), Str(Text(501)), Str(Text(600)), Num(5)}

Subtasks ==
    {Absent, Null, Arr(<<>>),
     Arr(<<Object(<<Prop(<<"i", "d">>, Str(<<"s", "1">>)), Prop(<<"n", "a", "m", "e">>, Str(<<"S", "u", "b">>)),
                    Prop(<<"s", "t", "a", "t", "u", "s">>, Object(<<Prop(<<"s", "t", "a", "t", "u", "s">>, Str(<<"d", "o", "n", "e">>))>>)),
                    Prop(<<"a", "s", "s", "i", "g", "n", "e", "e", "s">>, Arr(<<Object(<<Prop(<<"i", "n", "i", "t", "i", "a", "l", "s">>, Str(<<"B">>))>>)>>))>>),
           Object(<<Prop(<<"i", "d">>, Str(<<"s", "2">>))>>)>>),
     Arr(<<Null>>),
     Arr(<<Object(<<Prop(<<"i", "d">>, Str(<<"s", "1">>)), Prop(<<"a", "s", "s", "i", "g", "n", "e", "e", "s">>, Str(<<"b", "o", "b">>))>>)>>),
     Str(<<"n", "o", "n", "e">>)}

\* custom_fields values that are no list of entries
NoFieldLists == {Absent, Null, Str(<<"n", "o", "n", "e">>), Obj(<<>>), Num(0)}

Task(status, spent, assignees, text, fields, subtasks) ==
    Object(<<Prop(<<"i", "d">>, Str(<<"t", "1">>)), Prop(<<"n", "a", "m", "e">>, Str(<<"F", "i", "x">>)),
             Prop(<<"s", "t", "a", "t", "u", "s">>, status), Prop(<<"d", "a", "t", "e", "_", "c", "r", "e", "a", "t", "e", "d">>, Str(<<"1", "7", "0", "0", "0", "0", "0", "0", "0", "0", "0", "0", "0">>)),
             Prop(<<"t", "i", "m", "e", "_", "s", "p", "e", "n", "t">>, spent), Prop(<<"a", "s", "s", "i", "g", "n", "e", "e", "s">>, assignees),
             Prop(<<"d", "e", "s", "c", "r", "i", "p", "t", "i", "o", "n">>, text), Prop(<<"c", "u", "s", "t", "o", "m", "_", "f", "i", "e", "l", "d", "s">>, fields),
             Prop(<<"s", "u", "b", "t", "a", "s", "k", "s">>, subtasks)>>)

OpenStatus == Object(<<Prop(<<"s", "t", "a", "t", "u", "s">>, Str(<<"o", "p", "e", "n">>))>>)

\* tasks with a list of custom fields, their records in the heap
FieldTasks ==
    {[task |-> Task(OpenStatus, Num(5400000), Arr(<<>>), Str(Text(10)), RefsOf(fs), Absent),
      heap |-> HeapOf(fs)] : fs \in SeqsUpTo(FieldPool, MaxFields)}

\* tasks whose status, time_spent and assignees are of any shape
ShapeTasks ==
    {[task |-> Task(s, t, a, Absent, Absent, Absent), heap |-> <<>>] :
        s \in Statuses, t \in TimesSpent, a \in Assignees}

\* tasks whose description, custom_fields and subtasks are of any shape
DescribedTasks ==
    {[task |-> Task(OpenStatus, Absent, Absent, d, f, s), heap |-> <<>>] :
        d \in Descriptions, f \in NoFieldLists \cup {Arr(<<>>)}, s \in Subtasks}

---------------------------------------------------------------------------
(* The state machine of the task functions: resolveTaskCustomFields on a  *)
(* task, then createCompactTaskSummary on the task it leaves              *)

TaskInit ==
    /\ \E m \in FieldTasks \cup ShapeTasks \cup DescribedTasks :
          task = m.task /\ heap = m.heap
    /\ field = Pending
    /\ result = Pending
    /\ pc = "call"
    /\ comment = Pending
    /\ processedComment = Pending
    /\ NoHandler

\* the call with outcome o has returned or raised
Completes(o) ==
    /\ task' = o.task
    /\ heap' = o.heap
    /\ result' = o.completion
    /\ pc' = IF o.completion.t = "throw" THEN "failed" ELSE "resolved"

\* resolveTaskCustomFields(task): an exception leaves the call sequence
ResolveFields ==
    /\ pc = "call"
    /\ Completes(resolveTaskCustomFields(task, heap))
    /\ UNCHANGED <<field, comment, processedComment, args, returned, requests, calls>>

\* createCompactTaskSummary(task)
Summarize ==
    /\ pc = "resolved"
    /\ result' = createCompactTaskSummary(task, heap)
    /\ pc' = "summarized"
    /\ UNCHANGED <<field, task, heap, comment, processedComment, args, returned, requests, calls>>

TaskNext == ResolveFields \/ Summarize

TaskSpec == TaskInit /\ [][TaskNext]_vars

---------------------------------------------------------------------------
(* Properties of resolveTaskCustomFields and createCompactTaskSummary *)

\* the properties p without the one named k
Without(p, k) == SelectSeq(p, LAMBDA q : q.k # k)

\* the custom_fields of task t
FieldsOf(t) == Get(t, <<"c", "u", "s", "t", "o", "m", "_", "f", "i", "e", "l", "d", "s">>)

\* task t with the records of its custom_fields list in place of their
\* references
Content(t, h) ==
    IF FieldsOf(t).t = "array"
    THEN SetProp(t, <<"c", "u", "s", "t", "o", "m", "_", "f", "i", "e", "l", "d", "s">>,
                 Arr([i \in 1..Len(FieldsOf(t).a) |-> Deref(h, FieldsOf(t).a[i])]))
    ELSE t

\* the resolver raises on no entry of the list a
AllResolve(a, h) ==
    \A i \in 1..Len(a) : resolveCustomFieldValue(Deref(h, a[i])).t # "throw"

\* C11: resolveTaskCustomFields leaves every field record that was in
\* memory as it was; given a task whose custom_fields is no array it returns
\* the task unchanged; given one whose custom_fields is an array it makes
\* custom_fields a list of the same length whose entry i is a new object
\* holding the properties of the original entry i, in their order, and
\* resolved_value = resolveCustomFieldValue(original entry i), and it
\* changes nothing else of the task.  When the resolver raises on an entry
\* the call raises, with the task as it was.
C11_FieldsResolved ==
    [][pc = "call" /\ pc' # "call" =>
          LET before == FieldsOf(task)
              after == FieldsOf(task')
          IN  /\ Len(heap') >= Len(heap)
              /\ \A r \in 1..Len(heap) : heap'[r] = heap[r]
              /\ before.t # "array" =>
                    task' = task /\ heap' = heap /\ result' = task
              /\ before.t = "array" /\ AllResolve(before.a, heap) =>
                    /\ pc' = "resolved"
                    /\ result' = task'
                    /\ Without(task'.p, <<"c", "u", "s", "t", "o", "m", "_", "f", "i", "e", "l", "d", "s">>) = Without(task.p, <<"c", "u", "s", "t", "o", "m", "_", "f", "i", "e", "l", "d", "s">>)
                    /\ after.t = "array"
                    /\ Len(after.a) = Len(before.a)
                    /\ \A i \in 1..Len(before.a) :
                          LET orig == Deref(heap, before.a[i])
                              copy == Deref(heap', after.a[i])
                          IN  /\ after.a[i].t = "ref"
                              /\ after.a[i].r > Len(heap)
                              /\ \A j \in 1..Len(after.a) : j # i => after.a[j] # after.a[i]
                              /\ copy.t = "object"
                              /\ Get(copy, <<"r", "e", "s", "o", "l", "v", "e", "d", "_", "v", "a", "l", "u", "e">>) = resolveCustomFieldValue(orig)
                              /\ orig.t = "object" =>
                                    Without(copy.p, <<"r", "e", "s", "o", "l", "v", "e", "d", "_", "v", "a", "l", "u", "e">>)
                                        = Without(orig.p, <<"r", "e", "s", "o", "l", "v", "e", "d", "_", "v", "a", "l", "u", "e">>)
              /\ before.t = "array" /\ ~AllResolve(before.a, heap) =>
                    pc' = "failed" /\ task' = task /\ heap' = heap
      ]_vars

C11_Witness ==
    /\ pc = "resolved"
    /\ Len(heap) = 4
    /\ FieldsOf(task) = Arr(<<Ref(3), Ref(4)>>)
    /\ heap[1] = Field(Str(<<"T", "a", "g", "s">>), Str(<<"l", "a", "b", "e", "l", "s">>), TwoOptions,
                       Arr(<<Str(<<"i", "d", "1">>), Str(<<"i", "d", "2">>)>>))
    /\ heap[3] = Obj(heap[1].p \o <<Prop(<<"r", "e", "s", "o", "l", "v", "e", "d", "_", "v", "a", "l", "u", "e">>,
                                         Arr(<<Str(<<"U", "r", "g", "e", "n", "t">>), Str(<<"L", "o", "w">>)>>))>>)
    /\ Get(heap[2], <<"r", "e", "s", "o", "l", "v", "e", "d", "_", "v", "a", "l", "u", "e">>) = Str(<<"s", "t", "a", "l", "e">>)
    /\ heap[4] = Object(<<Prop(<<"n", "a", "m", "e">>, Str(<<"O", "l", "d">>)), Prop(<<"r", "e", "s", "o", "l", "v", "e", "d", "_", "v", "a", "l", "u", "e">>, Null),
                          Prop(<<"t", "y", "p", "e">>, Str(<<"t", "e", "x", "t">>))>>)

\* C12: resolveTaskCustomFields and createCompactTaskSummary leave the task
\* they are given as it was: after each call it has the same custom_fields
\* list, holding the same field records, as before the call.
C12_TaskLeftAsItWas ==
    [][(pc = "call" \/ pc = "resolved") => Content(task', heap') = Content(task, heap)]_vars

\* createCompactTaskSummary has returned a summary
Summarized == pc = "summarized" /\ result.t = "object"

TheDescription == Get(task, <<"d", "e", "s", "c", "r", "i", "p", "t", "i", "o", "n">>)

\* C13, as stated: a description longer than 500 characters becomes its
\* first 500 characters followed by "...", and every description of at most
\* 500 characters is the description of the summary, unchanged.
C13_CutOnlyAbove500 ==
    Summarized /\ TheDescription.t = "string" =>
      LET d == TheDescription.s
          r == Get(result, <<"d", "e", "s", "c", "r", "i", "p", "t", "i", "o", "n">>)
      IN  /\ Len(d) > 500 => r = Str(SubSeq(d, 1, 500) \o <<".", ".", ".">>)
          /\ Len(d) <= 500 => r = TheDescription

\* C13, amended: a description longer than 500 characters becomes its
\* first 500 characters followed by "...", a non-empty description of at
\* most 500 characters (exactly 500 included) is returned unchanged, and an
\* empty description is left out of the summary like an absent one; the
\* description of a summary never exceeds 503 characters.
C13_DescriptionCut ==
    Summarized /\ TheDescription.t = "string" =>
      LET d == TheDescription.s
          r == Get(result, <<"d", "e", "s", "c", "r", "i", "p", "t", "i", "o", "n">>)
      IN  /\ Len(d) > 500 =>
                /\ r.t = "string"
                /\ Len(r.s) = 503
                /\ \A i \in 1..500 : r.s[i] = d[i]
                /\ \A i \in 501..503 : r.s[i] = "."
          /\ Len(d) \in 1..500 => r = TheDescription
          /\ Len(d) = 0 => ~HasOwn(result, <<"d", "e", "s", "c", "r", "i", "p", "t", "i", "o", "n">>)
          /\ HasOwn(result, <<"d", "e", "s", "c", "r", "i", "p", "t", "i", "o", "n">>) => Len(r.s) <= 503

C13_Witness ==
    /\ Summarized
    /\ TheDescription.t = "string"
    /\ Len(TheDescription.s) = 501
    /\ TheDescription.s[500] # TheDescription.s[501]
    /\ Len(Get(result, <<"d", "e", "s", "c", "r", "i", "p", "t", "i", "o", "n">>).s) = 503

\* the text b reads as a decimal number with at most one decimal, and
\* ten times that number is the integer nearest to ms / 360000
IsTenthsOf(b, ms) ==
    LET u == IF b # <<>> /\ b[1] = "-" THEN SubSeq(b, 2, Len(b)) ELSE b
        fraction == Len(u) >= 3 /\ u[Len(u) - 1] = "."
        whole == IF fraction THEN SubSeq(u, 1, Len(u) - 2) ELSE u
        size == 10 * DecimalValue(whole) + (IF fraction THEN DigitValue(u[Len(u)]) ELSE 0)
        tenths == IF u = b THEN size ELSE -size
    IN  /\ whole # <<>>
        /\ IsDecimal(whole)
        /\ fraction => DigitValue(u[Len(u)]) < 10
        /\ tenths * 360000 - ms <= 180000
        /\ ms - tenths * 360000 <= 180000

\* C14: the summary gives every present time_spent, 0 included, as its
\* hours rounded to one decimal followed by "h", and gives null only for an
\* absent time_spent.
C14_HoursSpent ==
    Summarized =>
      LET v == Get(task, <<"t", "i", "m", "e", "_", "s", "p", "e", "n", "t">>)
          r == Get(result, <<"t", "i", "m", "e", "_", "s", "p", "e", "n", "t">>)
      IN  /\ v.t = "number" =>
                /\ r.t = "string"
                /\ r.s # <<>>
                /\ r.s[Len(r.s)] = "h"
                /\ IsTenthsOf(SubSeq(r.s, 1, Len(r.s) - 1), v.n)
          /\ r = Null => v \in {Undefined, Null}

\* the places of the list a whose entry resolves to a value
Kept(a, h) ==
    {i \in 1..Len(a) : resolveCustomFieldValue(Deref(h, a[i])) \notin {Null, Undefined}}

\* C15: the custom_fields of a summary hold, in the order of the task's
\* list, one entry for each custom field whose resolved value is neither
\* null nor undefined and none for the others; the entry is the name and
\* the resolved value of the field and nothing else.  Resolved values that
\* are 0, "", "No" or an empty array are kept.
C15_ResolvedFieldsListed ==
    Summarized /\ FieldsOf(task).t = "array" =>
      LET a == FieldsOf(task).a
          out == Get(result, <<"c", "u", "s", "t", "o", "m", "_", "f", "i", "e", "l", "d", "s">>)
          place(i) == Cardinality({j \in Kept(a, heap) : j <= i})
      IN  /\ out.t = "array"
          /\ Len(out.a) = Cardinality(Kept(a, heap))
          /\ \A i \in Kept(a, heap) :
                out.a[place(i)] =
                    Obj(<<Prop(<<"n", "a", "m", "e">>, Get(Deref(heap, a[i]), <<"n", "a", "m", "e">>)),
                          Prop(<<"v", "a", "l", "u", "e">>, resolveCustomFieldValue(Deref(heap, a[i])))>>)

C15_Witness ==
    /\ Summarized
    /\ Len(heap) = 4
    /\ Get(heap[1], <<"t", "y", "p", "e">>) = Str(<<"c", "u", "r", "r", "e", "n", "c", "y">>)
    /\ Get(heap[1], <<"v", "a", "l", "u", "e">>) = Num(0)
    /\ Get(heap[2], <<"t", "y", "p", "e">>) = Str(<<"n", "u", "m", "b", "e", "r">>)
    /\ Get(result, <<"c", "u", "s", "t", "o", "m", "_", "f", "i", "e", "l", "d", "s">>) =
          Arr(<<Obj(<<Prop(<<"n", "a", "m", "e">>, Str(<<"C", "o", "u", "n", "t">>)), Prop(<<"v", "a", "l", "u", "e">>, Num(0))>>)>>)

\* a property that is absent, undefined or null
Missing(o, k) == Get(o, k) \in {Undefined, Null}

\* C16: createCompactTaskSummary raises on no task, whatever the shape of
\* status, time_spent, assignees, description, custom_fields and subtasks;
\* an absent description, custom_fields or subtasks is left out of the
\* summary and an absent time_spent gives null.
C16_SummaryNeverRaises ==
    pc = "summarized" =>
      /\ result.t = "object"
      /\ \A k \in {<<"d", "e", "s", "c", "r", "i", "p", "t", "i", "o", "n">>, <<"c", "u", "s", "t", "o", "m", "_", "f", "i", "e", "l", "d", "s">>, <<"s", "u", "b", "t", "a", "s", "k", "s">>} :
            Missing(task, k) => ~HasOwn(result, k)
      /\ Missing(task, <<"t", "i", "m", "e", "_", "s", "p", "e", "n", "t">>) => Get(result, <<"t", "i", "m", "e", "_", "s", "p", "e", "n", "t">>) = Null

---------------------------------------------------------------------------
(* processCommentBlocks, the normalizer of comment blocks.  A block is an *)
(* object with a text and optional attributes; the attribute code-block   *)
(* holds the language tag of a block of code.                             *)

\* the code-block attribute of block b, undefined when it has none
CodeBlock(b) == OptGet(Get(b, <<"a", "t", "t", "r", "i", "b", "u", "t", "e", "s">>), <<"c", "o", "d", "e", "-", "b", "l", "o", "c", "k">>)

\* block b carries a code-block attribute
IsCode(b) == CodeBlock(b).t = "object"

\* the language tag of a block of code
Language(b) == Get(CodeBlock(b), <<"c", "o", "d", "e", "-", "b", "l", "o", "c", "k">>)

\* a and b are blocks of code with the identical language tag
SameCode(a, b) == IsCode(a) /\ IsCode(b) /\ Language(a) = Language(b)

\* the separator block: empty text, no formatting attributes
Separator == Obj(<<Prop(<<"t", "e", "x", "t">>, Str(<<>>)), Prop(<<"a", "t", "t", "r", "i", "b", "u", "t", "e", "s">>, Obj(<<>>))>>)

\* block b is a separator: its text is empty and it has no attribute
IsSeparator(b) ==
    /\ Get(b, <<"t", "e", "x", "t">>) = Str(<<>>)
    /\ Get(b, <<"a", "t", "t", "r", "i", "b", "u", "t", "e", "s">>) \in {Undefined, Obj(<<>>)}

\* mutant of NeedsSeparator: a separator that is already there is not seen
NeedsSeparator_unseen(a, b) == (IsCode(a) \/ IsCode(b)) /\ ~SameCode(a, b)

\* mutant of NeedsSeparator: a block of code is fenced off whatever its
\* neighbour is
NeedsSeparator_everyCode(a, b) ==
    /\ IsCode(a) \/ IsCode(b)
    /\ ~IsSeparator(a)
    /\ ~IsSeparator(b)

\* a separator goes between the neighbours a and b: one of them is a block
\* of code, the other is no block of code with the identical language tag,
\* and neither is a separator already
NeedsSeparator(a, b) ==
    /\ IsCode(a) \/ IsCode(b)
    /\ ~SameCode(a, b)
    /\ ~IsSeparator(a)
    /\ ~IsSeparator(b)

RECURSIVE Walk_losingLast(_, _)
\* mutant of Walk: the walk stops before the last block
Walk_losingLast(blocks, i) ==
    IF i >= Len(blocks) THEN <<>>
    ELSE <<blocks[i]>>
         \o (IF NeedsSeparator(blocks[i], blocks[i + 1]) THEN <<Separator>> ELSE <<>>)
         \o Walk_losingLast(blocks, i + 1)

RECURSIVE Walk(_, _)
\* the walk over the blocks from index i: every block as it is, followed by
\* a separator where it and its next block need one
Walk(blocks, i) ==
    IF i > Len(blocks) THEN <<>>
    ELSE <<blocks[i]>>
         \o (IF i < Len(blocks) /\ NeedsSeparator(blocks[i], blocks[i + 1])
             THEN <<Separator>> ELSE <<>>)
         \o Walk(blocks, i + 1)

processCommentBlocks(blocks) == Arr(Walk(blocks.a, 1))

---------------------------------------------------------------------------
(* The comments clickup_create_task_comment may be given *)

\* longest comment, in blocks
MaxBlocks == 3

CodeIn(tag) == Prop(<<"c", "o", "d", "e", "-", "b", "l", "o", "c", "k">>, Object(<<Prop(<<"c", "o", "d", "e", "-", "b", "l", "o", "c", "k">>, Str(tag))>>))

\* the attributes of a block: none, an empty set, a formatting flag, a
\* code-block of one of two languages, and a code-block with a flag
BlockAttributes ==
    {Absent, Obj(<<>>),
     Object(<<Prop(<<"b", "o", "l", "d">>, Bool(TRUE))>>),
     Object(<<CodeIn(<<"j", "s">>)>>),
     Object(<<CodeIn(<<"p", "y">>)>>),
     Object(<<Prop(<<"b", "o", "l", "d">>, Bool(TRUE)), CodeIn(<<"j", "s">>)>>)}

Blocks ==
    {Object(<<Prop(<<"t", "e", "x", "t">>, Str(t)), Prop(<<"a", "t", "t", "r", "i", "b", "u", "t", "e", "s">>, a)>>) :
        t \in {<<>>, <<"a">>}, a \in BlockAttributes}

---------------------------------------------------------------------------
(* The state machine of the normalizer: a comment is processed, and the   *)
(* blocks it gives are processed again                                    *)

CommentInit ==
    /\ \E blocks \in SeqsUpTo(Blocks, MaxBlocks) : comment = Arr(blocks)
    /\ processedComment = Pending
    /\ pc = "call"
    /\ field = Pending
    /\ result = Pending
    /\ task = Pending
    /\ heap = <<>>
    /\ NoHandler

\* mutant of Process: the blocks are passed on as they were given
Process_asGiven ==
    /\ pc = "call"
    /\ processedComment' = comment
    /\ pc' = "processed"
    /\ UNCHANGED <<comment, field, result, task, heap, args, returned, requests, calls>>

\* const processedComment = processCommentBlocks(comment)
Process ==
    /\ pc = "call"
    /\ processedComment' = processCommentBlocks(comment)
    /\ pc' = "processed"
    /\ UNCHANGED <<comment, field, result, task, heap, args, returned, requests, calls>>

\* a later call is given the blocks the earlier one produced
Reprocess ==
    /\ pc = "processed"
    /\ comment' = processedComment
    /\ processedComment' = processCommentBlocks(processedComment)
    /\ pc' = "reprocessed"
    /\ UNCHANGED <<field, result, task, heap, args, returned, requests, calls>>

CommentNext == Process \/ Reprocess

CommentSpec == CommentInit /\ [][CommentNext]_vars

---------------------------------------------------------------------------
(* Properties of processCommentBlocks *)

\* the i-th smallest number of the set S
Pick(S, i) == CHOOSE x \in S : Cardinality({y \in S : y <= x}) = i

\* the ways the blocks in lie in the blocks out, in their order, with
\* nothing but separator blocks in between: the sets of the places they take
Placings(in, out) ==
    {S \in SUBSET (1..Len(out)) :
        /\ Cardinality(S) = Len(in)
        /\ \A i \in 1..Len(in) : out[Pick(S, i)] = in[i]
        /\ \A j \in (1..Len(out)) \ S : out[j] = Separator}

\* neighbour b may stand next to the block of code a
Fenced(a, b) == SameCode(a, b) \/ IsSeparator(b)

\* C17: processCommentBlocks is idempotent: processing the blocks it
\* produced gives the same blocks again; no second separator is put next to
\* a separator.
C17_Idempotent == pc = "reprocessed" => processedComment = comment

C17_Witness ==
    /\ pc = "reprocessed"
    /\ Len(comment.a) = 5
    /\ comment.a[2] = Separator
    /\ comment.a[4] = Separator
    /\ IsCode(comment.a[3])
    /\ processedComment = comment

\* C18: in the blocks processCommentBlocks produces, both neighbours of a
\* block of code (where there are any) are blocks of code with the identical
\* language tag or separator blocks.
C18_CodeBlocksFenced ==
    pc \in {"processed", "reprocessed"} =>
      LET out == processedComment.a
      IN  \A i \in 1..Len(out) :
            IsCode(out[i]) =>
              /\ i > 1 => Fenced(out[i], out[i - 1])
              /\ i < Len(out) => Fenced(out[i], out[i + 1])

C18_Witness ==
    /\ pc = "processed"
    /\ comment = Arr(<<Object(<<Prop(<<"t", "e", "x", "t">>, Str(<<"a">>))>>),
                       Object(<<Prop(<<"t", "e", "x", "t">>, Str(<<"a">>)),
                                Prop(<<"a", "t", "t", "r", "i", "b", "u", "t", "e", "s">>, Object(<<CodeIn(<<"j", "s">>)>>))>>),
                       Object(<<Prop(<<"t", "e", "x", "t">>, Str(<<"a">>))>>)>>)
    /\ processedComment =
          Arr(<<comment.a[1], Separator, comment.a[2], Separator, comment.a[3]>>)

\* C19: the blocks processCommentBlocks produces are the blocks it was
\* given, each as it was and in the order given, with nothing but separator
\* blocks added.
C19_OnlySeparatorsAdded ==
    pc = "processed" => Placings(comment.a, processedComment.a) # {}

C19_Witness ==
    /\ pc = "processed"
    /\ Len(comment.a) = 3
    /\ IsSeparator(comment.a[1])
    /\ IsCode(comment.a[2])
    /\ Language(comment.a[2]) = Str(<<"p", "y">>)
    /\ Get(comment.a[3], <<"a", "t", "t", "r", "i", "b", "u", "t", "e", "s">>) = Object(<<Prop(<<"b", "o", "l", "d">>, Bool(TRUE))>>)
    /\ Len(processedComment.a) = 4
    /\ Placings(comment.a, processedComment.a) = {{1, 2, 4}}

\* C20: processCommentBlocks adds no separator where none is required: it
\* adds none before the first and after the last block (so no blocks give no
\* blocks and one block gives that block), none between two blocks of code
\* with the identical language tag, and none between two blocks that are
\* both no blocks of code.
C20_NoNeedlessSeparator ==
    pc = "processed" =>
      LET in == comment.a
          out == processedComment.a
      IN  /\ Len(in) <= 1 => out = in
          /\ \E S \in Placings(in, out) :
                /\ Len(in) > 0 => Pick(S, 1) = 1 /\ Pick(S, Len(in)) = Len(out)
                /\ \A i \in 1..(Len(in) - 1) :
                      SameCode(in[i], in[i + 1]) \/ (~IsCode(in[i]) /\ ~IsCode(in[i + 1])) =>
                          Pick(S, i + 1) = Pick(S, i) + 1

C20_Witness ==
    /\ pc = "processed"
    /\ Len(comment.a) = 3
    /\ SameCode(comment.a[1], comment.a[2])
    /\ comment.a[1] # comment.a[2]
    /\ Language(comment.a[3]) = Str(<<"p", "y">>)
    /\ processedComment =
          Arr(<<comment.a[1], comment.a[2], Separator, comment.a[3]>>)


---------------------------------------------------------------------------
(* The tool handlers.  A handler is invoked with one argument object,     *)
(* awaits one call of the ClickUp client and returns a tool result: a     *)
(* text, with isError set when the handler caught an exception.           *)

Spaces(n) == [i \in 1..n |-> " "]

\* the properties JSON.stringify writes: those holding undefined are left out
Written(p) == SelectSeq(p, LAMBDA x : x.v.t # "undefined")

RECURSIVE Indented(_, _, _)
RECURSIVE IndentedElements(_, _, _, _)
RECURSIVE IndentedProperties(_, _, _, _)
\* the elements of an array, each on a line of its own at depth n
IndentedElements(a, h, n, i) ==
    IF i > Len(a) THEN <<>>
    ELSE (IF i > 1 THEN <<",">> ELSE <<>>) \o <<"\n">> \o Spaces(n)
         \o (IF a[i].t = "undefined" THEN <<"n", "u", "l", "l">> ELSE Indented(a[i], h, n))
         \o IndentedElements(a, h, n, i + 1)

\* the properties of an object, each on a line of its own at depth n
IndentedProperties(p, h, n, i) ==
    IF i > Len(p) THEN <<>>
    ELSE (IF i > 1 THEN <<",">> ELSE <<>>) \o <<"\n">> \o Spaces(n)
         \o <<"\"">> \o p[i].k \o <<"\"", ":", " ">> \o Indented(p[i].v, h, n)
         \o IndentedProperties(p, h, n, i + 1)

\* JSON.stringify(v, null, 2) at depth n, for a value other than undefined:
\* an object held by reference is written where it is referred to
Indented(v, h, n) ==
    CASE v.t = "ref" -> Indented(h[v.r], h, n)
      [] v.t = "array" ->
            IF v.a = <<>> THEN <<"[", "]">>
            ELSE <<"[">> \o IndentedElements(v.a, h, n + 2, 1)
                 \o <<"\n">> \o Spaces(n) \o <<"]">>
      [] v.t = "object" ->
            IF Written(v.p) = <<>> THEN <<"{", "}">>
            ELSE <<"{">> \o IndentedProperties(Written(v.p), h, n + 2, 1)
                 \o <<"\n">> \o Spaces(n) \o <<"}">>
      [] OTHER -> JSONStringify(v)

\* { content: [{ type: 'text', text }] }
ToolResult(text) ==
    Obj(<<Prop(<<"c", "o", "n", "t", "e", "n", "t">>,
               Arr(<<Obj(<<Prop(<<"t", "y", "p", "e">>, Str(<<"t", "e", "x", "t">>)), Prop(<<"t", "e", "x", "t">>, Str(text))>>)>>))>>)

\* { content: [{ type: 'text', text }], isError: true }
ToolError(text) ==
    Obj(<<Prop(<<"c", "o", "n", "t", "e", "n", "t">>,
               Arr(<<Obj(<<Prop(<<"t", "y", "p", "e">>, Str(<<"t", "e", "x", "t">>)), Prop(<<"t", "e", "x", "t">>, Str(text))>>)>>)),
          Prop(<<"i", "s", "E", "r", "r", "o", "r">>, Bool(TRUE))>>)

\* the failures of a call of the ClickUp client: the request did not get
\* through, or the API answered with an error status
Failures == {"Network Error", "Request failed with status code 404"}

\* error.message of the exception e
message(e) ==
    CASE e = "Network Error" -> <<"N", "e", "t", "w", "o", "r", "k", " ", "E", "r", "r", "o", "r">>
      [] e = "Request failed with status code 404" -> <<"R", "e", "q", "u", "e", "s", "t", " ", "f", "a", "i", "l", "e", "d", " ", "w", "i", "t", "h", " ", "s", "t", "a", "t", "u", "s", " ", "c", "o", "d", "e", " ", "4", "0", "4">>
      [] e = "RangeError" -> <<"I", "n", "v", "a", "l", "i", "d", " ", "t", "i", "m", "e", " ", "v", "a", "l", "u", "e">>
      [] e = "TypeError" -> <<"C", "a", "n", "n", "o", "t", " ", "r", "e", "a", "d", " ", "p", "r", "o", "p", "e", "r", "t", "i", "e", "s", " ", "o", "f", " ", "n", "u", "l", "l">>

\* the result returned by a catch block: `${prefix}: ${error.message}`
Caught(prefix, e) == ToolError(prefix \o <<":", " ">> \o message(e))

\* a call of the ClickUp client
Request(method, id, body) == [method |-> method, id |-> id, body |-> body]

---------------------------------------------------------------------------
(* clickup_get_task_details *)

RECURSIVE ResolveEach(_, _, _)
RECURSIVE ResolveNext(_, _, _)
\* task.subtasks.forEach(subtask => resolveTaskCustomFields(subtask)) from
\* subtask i on: the subtasks and the heap it leaves, and undefined or the
\* exception raised.  Reading custom_fields of null or undefined raises.
ResolveEach(subtasks, h, i) ==
    IF i > Len(subtasks) THEN Outcome(Arr(subtasks), h, Undefined)
    ELSE IF subtasks[i].t \in {"undefined", "null"}
    THEN Outcome(Arr(subtasks), h, Throw("TypeError"))
    ELSE ResolveNext(subtasks, resolveTaskCustomFields(subtasks[i], h), i)

\* subtask i has been dealt with, with outcome o
ResolveNext(subtasks, o, i) ==
    IF o.completion.t = "throw" THEN Outcome(Arr(subtasks), o.heap, o.completion)
    ELSE ResolveEach([subtasks EXCEPT ![i] = o.task], o.heap, i + 1)

\* the subtasks s written to the task
WithSubtasks(t, o) == Outcome(SetProp(t, <<"s", "u", "b", "t", "a", "s", "k", "s">>, o.task), o.heap, o.completion)

\* if (task.subtasks && Array.isArray(task.subtasks)) task.subtasks.forEach(...)
resolveSubtasks(t, h) ==
    IF Truthy(Get(t, <<"s", "u", "b", "t", "a", "s", "k", "s">>)) /\ IsArray(Get(t, <<"s", "u", "b", "t", "a", "s", "k", "s">>))
    THEN WithSubtasks(t, ResolveEach(Get(t, <<"s", "u", "b", "t", "a", "s", "k", "s">>).a, h, 1))
    ELSE Outcome(t, h, Undefined)

\* compact ? createCompactTaskSummary(task) : task
Chosen(c, t, h) == IF Truthy(c) THEN createCompactTaskSummary(t, h) ELSE t

---------------------------------------------------------------------------
(* The tasks the API may answer clickup_get_task_details with *)

\* most subtasks of a task
MaxSubtasks == 2

\* entries of the custom_fields lists: records resolved to an array, null,
\* "No" and null, and one the resolver raises on
HandlerFields ==
    {Field(Str(<<"T", "a", "g", "s">>), Str(<<"l", "a", "b", "e", "l", "s">>), TwoOptions, Arr(<<Str(<<"i", "d", "1">>), Str(<<"i", "d", "2">>)>>)),
     Field(Str(<<"C", "o", "s", "t">>), Str(<<"c", "u", "r", "r", "e", "n", "c", "y">>), Absent, Num(0)),
     Field(Str(<<"P", "a", "i", "d">>), Str(<<"c", "h", "e", "c", "k", "b", "o", "x">>), Absent, Bool(FALSE)),
     Field(Str(<<"N", "o", "t", "e">>), Str(<<"t", "e", "x", "t">>), Absent, Null),
     Field(Str(<<"D", "u", "e">>), Str(<<"d", "a", "t", "e">>), Absent, Str(<<"a", "b", "c">>))}

\* what a subtask is made from: null for a null subtask, else the
\* custom_fields it carries (none, or a list of entries)
SubtaskLists ==
    {Null, Absent,
     Arr(<<Field(Str(<<"P", "a", "i", "d">>), Str(<<"c", "h", "e", "c", "k", "b", "o", "x">>), Absent, Bool(TRUE))>>),
     Arr(<<Field(Str(<<"D", "u", "e">>), Str(<<"d", "a", "t", "e">>), Absent, Str(<<"a", "b", "c">>))>>)}

Entries(g) == IF g.t = "array" THEN g.a ELSE <<>>

\* the array of the entries fs, n records lying in memory before theirs
RefsAfter(fs, n) ==
    Arr([i \in 1..Len(fs) |->
            IF fs[i].t = "object"
            THEN Ref(n + Cardinality({j \in 1..i : fs[j].t = "object"}))
            ELSE fs[i]])

SubtaskWith(g, n) ==
    IF g = Null THEN Null
    ELSE Object(<<Prop(<<"i", "d">>, Str(<<"s", "1">>)), Prop(<<"n", "a", "m", "e">>, Str(<<"S", "u", "b">>)),
                  Prop(<<"c", "u", "s", "t", "o", "m", "_", "f", "i", "e", "l", "d", "s">>, IF g.t = "array" THEN RefsAfter(g.a, n) ELSE g)>>)

RECURSIVE SubtasksFrom(_, _, _)
\* the subtasks made from gs[i] on, n records lying in memory before theirs
SubtasksFrom(gs, i, n) ==
    IF i > Len(gs) THEN <<>>
    ELSE <<SubtaskWith(gs[i], n)>>
         \o SubtasksFrom(gs, i + 1, n + Len(HeapOf(Entries(gs[i]))))

RECURSIVE HeapFrom(_, _)
\* the records of the subtasks made from gs[i] on
HeapFrom(gs, i) ==
    IF i > Len(gs) THEN <<>> ELSE HeapOf(Entries(gs[i])) \o HeapFrom(gs, i + 1)

\* tasks with custom fields of their own and of their subtasks
SubtaskedTasks ==
    {[task |-> Task(OpenStatus, Num(5400000), Absent, Absent, RefsOf(fs),
                    Arr(SubtasksFrom(gs, 1, Len(HeapOf(fs))))),
      heap |-> HeapOf(fs) \o HeapFrom(gs, 1)] :
        fs \in SeqsUpTo(HandlerFields, MaxFields),
        gs \in SeqsUpTo(SubtaskLists, MaxSubtasks)}

\* tasks whose custom_fields and subtasks are of any shape
UnlistedTasks ==
    {[task |-> Task(OpenStatus, Absent, Absent, Str(Text(10)), f, s), heap |-> <<>>] :
        f \in NoFieldLists, s \in Subtasks}

Payloads == SubtaskedTasks \cup ShapeTasks \cup UnlistedTasks

---------------------------------------------------------------------------
(* The state machine of clickup_get_task_details: the task is fetched,    *)
(* its custom fields and those of its subtasks are resolved, the result   *)
(* is chosen and returned as a text; an exception ends in the catch block *)

DetailsInit ==
    /\ \E c \in {Absent, Bool(TRUE), Bool(FALSE)} :
          args = Object(<<Prop(<<"t", "a", "s", "k", "_", "i", "d">>, Str(<<"t", "1">>)),
                          Prop(<<"i", "n", "c", "l", "u", "d", "e", "_", "s", "u", "b", "t", "a", "s", "k", "s">>, Bool(TRUE)),
                          Prop(<<"c", "o", "m", "p", "a", "c", "t">>, c)>>)
    /\ task = Pending
    /\ heap = <<>>
    /\ result = Pending
    /\ returned = Pending
    /\ requests = <<>>
    /\ pc = "call"
    /\ field = Pending
    /\ comment = Pending
    /\ processedComment = Pending
    /\ calls = <<>>

\* await tasksClient.getTask(task_id, { include_subtasks }): the call is made
GetTask ==
    /\ pc = "call"
    /\ requests' = Append(requests,
                          Request("getTask", Get(args, <<"t", "a", "s", "k", "_", "i", "d">>),
                                  Obj(<<Prop(<<"i", "n", "c", "l", "u", "d", "e", "_", "s", "u", "b", "t", "a", "s", "k", "s">>,
                                             Get(args, <<"i", "n", "c", "l", "u", "d", "e", "_", "s", "u", "b", "t", "a", "s", "k", "s">>))>>)))
    /\ pc' = "awaiting"
    /\ UNCHANGED <<field, result, task, heap, comment, processedComment, args, returned, calls>>

\* the call is answered with a task
TaskArrives ==
    /\ pc = "awaiting"
    /\ \E m \in Payloads : task' = m.task /\ heap' = m.heap
    /\ pc' = "fetched"
    /\ UNCHANGED <<field, result, comment, processedComment, args, returned, requests, calls>>

\* the call fails: the catch block returns the error result
GetTaskFails ==
    /\ pc = "awaiting"
    /\ \E e \in Failures : returned' = Caught(<<"E", "r", "r", "o", "r", " ", "g", "e", "t", "t", "i", "n", "g", " ", "t", "a", "s", "k", " ", "d", "e", "t", "a", "i", "l", "s">>, e)
    /\ pc' = "returned"
    /\ UNCHANGED <<field, result, task, heap, comment, processedComment, args, requests, calls>>

\* a resolution step with outcome o goes on to the step next, or raises
\* into the catch block
Resolved(o, next) ==
    /\ task' = o.task
    /\ heap' = o.heap
    /\ IF o.completion.t = "throw"
       THEN returned' = Caught(<<"E", "r", "r", "o", "r", " ", "g", "e", "t", "t", "i", "n", "g", " ", "t", "a", "s", "k", " ", "d", "e", "t", "a", "i", "l", "s">>, o.completion.e)
            /\ pc' = "returned"
       ELSE returned' = returned /\ pc' = next

\* resolveTaskCustomFields(task)
ResolveTask ==
    /\ pc = "fetched"
    /\ Resolved(resolveTaskCustomFields(task, heap), "task_resolved")
    /\ UNCHANGED <<field, result, comment, processedComment, args, requests, calls>>

\* mutant of ResolveSubtasks: the subtasks are left as they came
ResolveSubtasks_skipped ==
    /\ pc = "task_resolved"
    /\ pc' = "resolved"
    /\ UNCHANGED <<field, result, task, heap, comment, processedComment, args, returned, requests, calls>>

\* the custom fields of every subtask are resolved
ResolveSubtasks ==
    /\ pc = "task_resolved"
    /\ Resolved(resolveSubtasks(task, heap), "resolved")
    /\ UNCHANGED <<field, result, comment, processedComment, args, requests, calls>>

\* the completion c of the choice is the result, or raises into the catch block
Chooses(c) ==
    IF c.t = "throw"
    THEN /\ returned' = Caught(<<"E", "r", "r", "o", "r", " ", "g", "e", "t", "t", "i", "n", "g", " ", "t", "a", "s", "k", " ", "d", "e", "t", "a", "i", "l", "s">>, c.e)
         /\ pc' = "returned"
         /\ result' = result
    ELSE /\ result' = c
         /\ pc' = "chosen"
         /\ returned' = returned

\* const result = compact ? createCompactTaskSummary(task) : task
Choose ==
    /\ pc = "resolved"
    /\ Chooses(Chosen(Get(args, <<"c", "o", "m", "p", "a", "c", "t">>), task, heap))
    /\ UNCHANGED <<field, task, heap, comment, processedComment, args, requests, calls>>

\* return { content: [{ type: 'text', text: JSON.stringify(result, null, 2) }] }
Return ==
    /\ pc = "chosen"
    /\ returned' = ToolResult(Indented(result, heap, 0))
    /\ pc' = "returned"
    /\ UNCHANGED <<field, result, task, heap, comment, processedComment, args, requests, calls>>

DetailsNext ==
    \/ GetTask
    \/ TaskArrives
    \/ GetTaskFails
    \/ ResolveTask
    \/ ResolveSubtasks
    \/ Choose
    \/ Return

DetailsSpec == DetailsInit /\ [][DetailsNext]_vars

---------------------------------------------------------------------------
(* Properties of clickup_get_task_details *)

\* the handler has returned the tool result
HasReturned == pc = "returned"

\* the text of a tool result
TextOf(r) == Get(Get(r, <<"c", "o", "n", "t", "e", "n", "t">>).a[1], <<"t", "e", "x", "t">>)

\* a tool result carrying the error flag
IsError(r) == Get(r, <<"i", "s", "E", "r", "r", "o", "r">>) = Bool(TRUE)

\* C21: every failure the caller of clickup_get_task_details sees comes
\* from the fetch of the task: when the fetch has answered with a task the
\* handler returns a result without the error flag, whatever the task, and
\* when the fetch has failed it returns a result with isError true whose
\* text is "Error getting task details: " followed by the failure's message.
C21_FailuresOnlyFromFetch ==
    HasReturned =>
      IF task = Pending
      THEN \E e \in Failures :
              returned = ToolError(<<"E", "r", "r", "o", "r", " ", "g", "e", "t", "t", "i", "n", "g", " ", "t", "a", "s", "k", " ", "d", "e", "t", "a", "i", "l", "s", ":", " ">> \o message(e))
      ELSE ~HasOwn(returned, <<"i", "s", "E", "r", "r", "o", "r">>)

\* every entry of the custom_fields list of t holds the resolved value of
\* its record
FieldsResolved(t, h) ==
    FieldsOf(t).t = "array" =>
      \A i \in 1..Len(FieldsOf(t).a) :
         /\ Deref(h, FieldsOf(t).a[i]).t = "object"
         /\ HasOwn(Deref(h, FieldsOf(t).a[i]), <<"r", "e", "s", "o", "l", "v", "e", "d", "_", "v", "a", "l", "u", "e">>)
         /\ Get(Deref(h, FieldsOf(t).a[i]), <<"r", "e", "s", "o", "l", "v", "e", "d", "_", "v", "a", "l", "u", "e">>)
               = resolveCustomFieldValue(Deref(h, FieldsOf(t).a[i]))

\* the same of every subtask of t
SubtasksResolved(t, h) ==
    Get(t, <<"s", "u", "b", "t", "a", "s", "k", "s">>).t = "array" =>
      \A i \in 1..Len(Get(t, <<"s", "u", "b", "t", "a", "s", "k", "s">>).a) :
         FieldsResolved(Get(t, <<"s", "u", "b", "t", "a", "s", "k", "s">>).a[i], h)

\* the keys of a summary
SummaryKeys ==
    {<<"i", "d">>, <<"n", "a", "m", "e">>, <<"s", "t", "a", "t", "u", "s">>, <<"d", "a", "t", "e", "_", "c", "r", "e", "a", "t", "e", "d">>, <<"d", "a", "t", "e", "_", "u", "p", "d", "a", "t", "e", "d">>, <<"s", "t", "a", "r", "t", "_", "d", "a", "t", "e">>,
     <<"d", "u", "e", "_", "d", "a", "t", "e">>, <<"t", "i", "m", "e", "_", "s", "p", "e", "n", "t">>, <<"a", "s", "s", "i", "g", "n", "e", "e", "s">>, <<"d", "e", "s", "c", "r", "i", "p", "t", "i", "o", "n">>, <<"c", "u", "s", "t", "o", "m", "_", "f", "i", "e", "l", "d", "s">>,
     <<"s", "u", "b", "t", "a", "s", "k", "s">>}

\* the custom_fields of summary s are the names and resolved values the
\* records of task t hold
FromResolved(s, t, h) ==
    FieldsOf(t).t = "array" =>
      /\ FieldsOf(s).t = "array"
      /\ \A i \in 1..Len(FieldsOf(s).a) :
            \E j \in 1..Len(FieldsOf(t).a) :
               /\ HasOwn(Deref(h, FieldsOf(t).a[j]), <<"r", "e", "s", "o", "l", "v", "e", "d", "_", "v", "a", "l", "u", "e">>)
               /\ FieldsOf(s).a[i] =
                     Obj(<<Prop(<<"n", "a", "m", "e">>, Get(Deref(h, FieldsOf(t).a[j]), <<"n", "a", "m", "e">>)),
                           Prop(<<"v", "a", "l", "u", "e">>, Get(Deref(h, FieldsOf(t).a[j]), <<"r", "e", "s", "o", "l", "v", "e", "d", "_", "v", "a", "l", "u", "e">>))>>)
      /\ Len(FieldsOf(s).a) =
            Cardinality({j \in 1..Len(FieldsOf(t).a) :
                            resolveCustomFieldValue(Deref(h, FieldsOf(t).a[j]))
                                \notin {Null, Undefined}})

\* C23: in clickup_get_task_details a result is chosen only once the
\* custom fields of the task and of every subtask have been resolved: when
\* the result is chosen, and from then on, every custom field of the task
\* and of each subtask holds its resolved value.  With compact true the
\* result is the summary, its custom_fields built from the resolved values,
\* and with compact false or absent it is the full task; the text returned
\* is the serialisation of that result and of nothing else.
C23_ResolvedBeforeChosen ==
    result # Pending =>
      /\ pc = "chosen" \/ pc = "returned"
      /\ FieldsResolved(task, heap)
      /\ SubtasksResolved(task, heap)
      /\ IF Truthy(Get(args, <<"c", "o", "m", "p", "a", "c", "t">>))
         THEN /\ result.t = "object"
              /\ \A i \in 1..Len(result.p) : result.p[i].k \in SummaryKeys
              /\ Get(result, <<"i", "d">>) = Get(task, <<"i", "d">>)
              /\ FromResolved(result, task, heap)
         ELSE result = task
      /\ HasReturned =>
            returned = Obj(<<Prop(<<"c", "o", "n", "t", "e", "n", "t">>,
                                  Arr(<<Obj(<<Prop(<<"t", "y", "p", "e">>, Str(<<"t", "e", "x", "t">>)),
                                              Prop(<<"t", "e", "x", "t">>, Str(Indented(result, heap, 0)))>>)>>))>>)

\* the full task is returned with the resolved value "No" of its checkbox
\* and the resolved value "Yes" of the checkbox of its subtask
C23_Witness ==
    /\ HasReturned
    /\ ~IsError(returned)
    /\ ~Truthy(Get(args, <<"c", "o", "m", "p", "a", "c", "t">>))
    /\ Len(heap) = 4
    /\ FieldsOf(task) = Arr(<<Ref(3)>>)
    /\ Get(heap[3], <<"r", "e", "s", "o", "l", "v", "e", "d", "_", "v", "a", "l", "u", "e">>) = Str(<<"N", "o">>)
    /\ FieldsOf(Get(task, <<"s", "u", "b", "t", "a", "s", "k", "s">>).a[1]) = Arr(<<Ref(4)>>)
    /\ Get(heap[4], <<"r", "e", "s", "o", "l", "v", "e", "d", "_", "v", "a", "l", "u", "e">>) = Str(<<"Y", "e", "s">>)
    /\ ~HasOwn(heap[1], <<"r", "e", "s", "o", "l", "v", "e", "d", "_", "v", "a", "l", "u", "e">>)

---------------------------------------------------------------------------
(* The state machine of clickup_create_task_comment: the blocks are       *)
(* processed, the payload is posted, and the answer of the API or the     *)
(* failure of the request is returned as a text                           *)

\* the blocks of the comments the handler is invoked with: a plain text,
\* a bold text, code of two languages and a separator
HandlerBlocks ==
    {Object(<<Prop(<<"t", "e", "x", "t">>, Str(<<"a">>))>>),
     Object(<<Prop(<<"t", "e", "x", "t">>, Str(<<"a">>)), Prop(<<"a", "t", "t", "r", "i", "b", "u", "t", "e", "s">>, Object(<<Prop(<<"b", "o", "l", "d">>, Bool(TRUE))>>))>>),
     Object(<<Prop(<<"t", "e", "x", "t">>, Str(<<"a">>)), Prop(<<"a", "t", "t", "r", "i", "b", "u", "t", "e", "s">>, Object(<<CodeIn(<<"j", "s">>)>>))>>),
     Object(<<Prop(<<"t", "e", "x", "t">>, Str(<<"a">>)), Prop(<<"a", "t", "t", "r", "i", "b", "u", "t", "e", "s">>, Object(<<CodeIn(<<"p", "y">>)>>))>>),
     Separator}

\* task_id and the rest of the arguments, commentParams: neither of
\* assignee and notify_all, both, or notify_all false
CommentArgs ==
    {Object(<<Prop(<<"t", "a", "s", "k", "_", "i", "d">>, Str(<<"t", "1">>)), Prop(<<"a", "s", "s", "i", "g", "n", "e", "e">>, a), Prop(<<"n", "o", "t", "i", "f", "y", "_", "a", "l", "l">>, n)>>) :
        a \in {Absent, Num(7)}, n \in {Absent, Bool(TRUE), Bool(FALSE)}}

\* what the API answers a POST with
Responses ==
    {Obj(<<>>),
     Obj(<<Prop(<<"i", "d">>, Str(<<"4", "5", "8">>)), Prop(<<"h", "i", "s", "t", "_", "i", "d">>, Str(<<"2", "6", "5", "0", "8">>)),
           Prop(<<"d", "a", "t", "e">>, Num(1568036964))>>)}

CreateCommentInit ==
    /\ \E blocks \in SeqsUpTo(HandlerBlocks, MaxBlocks) : comment = Arr(blocks)
    /\ args \in CommentArgs
    /\ processedComment = Pending
    /\ result = Pending
    /\ returned = Pending
    /\ requests = <<>>
    /\ pc = "call"
    /\ field = Pending
    /\ task = Pending
    /\ heap = <<>>
    /\ calls = <<>>

\* { notify_all: commentParams.notify_all || false,
\*   assignee: commentParams.assignee, comment }
Payload(params, blocks) ==
    Obj(<<Prop(<<"n", "o", "t", "i", "f", "y", "_", "a", "l", "l">>, OrElse(Get(params, <<"n", "o", "t", "i", "f", "y", "_", "a", "l", "l">>), Bool(FALSE))),
          Prop(<<"a", "s", "s", "i", "g", "n", "e", "e">>, Get(params, <<"a", "s", "s", "i", "g", "n", "e", "e">>)),
          Prop(<<"c", "o", "m", "m", "e", "n", "t">>, blocks)>>)

\* mutant of Post: the blocks are posted as the caller gave them
Post_raw ==
    /\ pc = "processed"
    /\ requests' = Append(requests,
                          Request("post",
                                  Str(<<"/", "t", "a", "s", "k", "/">> \o ToString(Get(args, <<"t", "a", "s", "k", "_", "i", "d">>)) \o <<"/", "c", "o", "m", "m", "e", "n", "t">>),
                                  Payload(args, comment)))
    /\ pc' = "awaiting"
    /\ UNCHANGED <<field, result, task, heap, comment, processedComment, args, returned, calls>>

\* await clickUpClient.post(`/task/${task_id}/comment`, payload): the
\* payload is built and the request is made
Post ==
    /\ pc = "processed"
    /\ requests' = Append(requests,
                          Request("post",
                                  Str(<<"/", "t", "a", "s", "k", "/">> \o ToString(Get(args, <<"t", "a", "s", "k", "_", "i", "d">>)) \o <<"/", "c", "o", "m", "m", "e", "n", "t">>),
                                  Payload(args, processedComment)))
    /\ pc' = "awaiting"
    /\ UNCHANGED <<field, result, task, heap, comment, processedComment, args, returned, calls>>

\* the request is answered: the answer is returned as a text
PostAnswered ==
    /\ pc = "awaiting"
    /\ \E r \in Responses :
          /\ result' = r
          /\ returned' = ToolResult(Indented(r, heap, 0))
    /\ pc' = "returned"
    /\ UNCHANGED <<field, task, heap, comment, processedComment, args, requests, calls>>

\* the request fails: the catch block returns the error result
PostFails ==
    /\ pc = "awaiting"
    /\ \E e \in Failures : returned' = Caught(<<"E", "r", "r", "o", "r", " ", "c", "r", "e", "a", "t", "i", "n", "g", " ", "t", "a", "s", "k", " ", "c", "o", "m", "m", "e", "n", "t">>, e)
    /\ pc' = "returned"
    /\ UNCHANGED <<field, result, task, heap, comment, processedComment, args, requests, calls>>

CreateCommentNext == Process \/ Post \/ PostAnswered \/ PostFails

CreateCommentSpec == CreateCommentInit /\ [][CreateCommentNext]_vars

---------------------------------------------------------------------------
(* Properties of clickup_create_task_comment *)

\* C24: clickup_create_task_comment makes no request before the blocks are
\* normalized and exactly one afterwards: a POST to /task/<task_id>/comment
\* whose payload holds the normalized blocks as its comment, the assignee
\* given, and notify_all as given or false when it was not given.  When
\* the request is answered the answer is returned as a text without the
\* error flag; when it fails the handler returns a result with isError
\* true and the failure's message, and raises nothing.
C24_NormalizedThenPosted ==
    /\ (pc = "call" \/ pc = "processed") => requests = <<>>
    /\ (pc = "awaiting" \/ pc = "returned") =>
          /\ Len(requests) = 1
          /\ requests[1].method = "post"
          /\ requests[1].id = Str(<<"/", "t", "a", "s", "k", "/", "t", "1", "/", "c", "o", "m", "m", "e", "n", "t">>)
          /\ requests[1].body.t = "object"
          /\ Len(requests[1].body.p) = 3
          /\ Get(requests[1].body, <<"c", "o", "m", "m", "e", "n", "t">>) = processCommentBlocks(comment)
          /\ Get(requests[1].body, <<"a", "s", "s", "i", "g", "n", "e", "e">>) = Get(args, <<"a", "s", "s", "i", "g", "n", "e", "e">>)
          /\ Get(requests[1].body, <<"n", "o", "t", "i", "f", "y", "_", "a", "l", "l">>) =
                (IF HasOwn(args, <<"n", "o", "t", "i", "f", "y", "_", "a", "l", "l">>) THEN Get(args, <<"n", "o", "t", "i", "f", "y", "_", "a", "l", "l">>) ELSE Bool(FALSE))
    /\ HasReturned =>
          IF result = Pending
          THEN \E e \in Failures :
                  returned = ToolError(<<"E", "r", "r", "o", "r", " ", "c", "r", "e", "a", "t", "i", "n", "g", " ", "t", "a", "s", "k", " ", "c", "o", "m", "m", "e", "n", "t", ":", " ">> \o message(e))
          ELSE /\ returned.t = "object"
               /\ ~HasOwn(returned, <<"i", "s", "E", "r", "r", "o", "r">>)
               /\ TextOf(returned) = Str(Indented(result, heap, 0))

\* a comment of two code blocks of different languages, notify_all not
\* given: the request carried a separator between them, and it failed
C24_Witness ==
    /\ HasReturned
    /\ IsError(returned)
    /\ ~HasOwn(args, <<"n", "o", "t", "i", "f", "y", "_", "a", "l", "l">>)
    /\ Len(comment.a) = 2
    /\ Len(requests) = 1
    /\ Get(requests[1].body, <<"n", "o", "t", "i", "f", "y", "_", "a", "l", "l">>) = Bool(FALSE)
    /\ Get(requests[1].body, <<"c", "o", "m", "m", "e", "n", "t">>) = Arr(<<comment.a[1], Separator, comment.a[2]>>)

---------------------------------------------------------------------------
(* Handlers in flight at the same time.  A handler runs without           *)
(* interruption from its invocation to its await and from the answer to   *)
(* its return; the calls are interleaved at the awaits.  All calls share  *)
(* the memory and the ClickUp client.                                     *)

\* most calls in flight
MaxCalls == 2

\* what is returned for the completion r of the choice of the result
Returning(r, h) ==
    [heap |-> h,
     returned |-> IF r.t = "throw" THEN Caught(<<"E", "r", "r", "o", "r", " ", "g", "e", "t", "t", "i", "n", "g", " ", "t", "a", "s", "k", " ", "d", "e", "t", "a", "i", "l", "s">>, r.e)
                  ELSE ToolResult(Indented(r, h, 0))]

\* the handler from the resolution of the subtasks, of outcome o, on
AfterSubtasks(c, o) ==
    IF o.completion.t = "throw"
    THEN [heap |-> o.heap, returned |-> Caught(<<"E", "r", "r", "o", "r", " ", "g", "e", "t", "t", "i", "n", "g", " ", "t", "a", "s", "k", " ", "d", "e", "t", "a", "i", "l", "s">>, o.completion.e)]
    ELSE Returning(Chosen(c, o.task, o.heap), o.heap)

\* the handler from the resolution of the task, of outcome o, on
AfterTask(c, o) ==
    IF o.completion.t = "throw"
    THEN [heap |-> o.heap, returned |-> Caught(<<"E", "r", "r", "o", "r", " ", "g", "e", "t", "t", "i", "n", "g", " ", "t", "a", "s", "k", " ", "d", "e", "t", "a", "i", "l", "s">>, o.completion.e)]
    ELSE AfterSubtasks(c, resolveSubtasks(o.task, o.heap))

\* clickup_get_task_details from the answer of the fetch to the return,
\* for the argument compact c and the task t in memory h: the memory it
\* leaves and the tool result it returns
details(c, t, h) == AfterTask(c, resolveTaskCustomFields(t, h))

\* the entries of a custom_fields list, their records n places further on
Shifted(fields, n) ==
    IF fields.t = "array"
    THEN Arr([i \in 1..Len(fields.a) |->
                 IF fields.a[i].t = "ref" THEN Ref(fields.a[i].r + n) ELSE fields.a[i]])
    ELSE fields

ShiftFields(t, n) ==
    IF t.t = "object" /\ HasOwn(t, <<"c", "u", "s", "t", "o", "m", "_", "f", "i", "e", "l", "d", "s">>)
    THEN SetProp(t, <<"c", "u", "s", "t", "o", "m", "_", "f", "i", "e", "l", "d", "s">>, Shifted(Get(t, <<"c", "u", "s", "t", "o", "m", "_", "f", "i", "e", "l", "d", "s">>), n))
    ELSE t

\* task t, its records and those of its subtasks n places further on
Relocate(t, n) ==
    IF Get(t, <<"s", "u", "b", "t", "a", "s", "k", "s">>).t = "array"
    THEN SetProp(ShiftFields(t, n), <<"s", "u", "b", "t", "a", "s", "k", "s">>,
                 Arr([i \in 1..Len(Get(t, <<"s", "u", "b", "t", "a", "s", "k", "s">>).a) |->
                         ShiftFields(Get(t, <<"s", "u", "b", "t", "a", "s", "k", "s">>).a[i], n)]))
    ELSE ShiftFields(t, n)

\* mutant of Parsed: the task refers to the records that lie first in memory
Parsed_shared(m, h) == [task |-> m.task, heap |-> h \o m.heap]

\* the answer m of the API parsed into the memory h: its records are new
\* objects, behind those in memory
Parsed(m, h) == [task |-> Relocate(m.task, Len(h)), heap |-> h \o m.heap]

\* the tasks the API answers the concurrent calls with: one with a labels
\* field, one with a date the resolver raises on, and one with a checkbox
\* of its own and one of a subtask
ConcurrentPayloads ==
    {[t |-> "answer", task |-> m.task, heap |-> m.heap] :
        m \in {n \in SubtaskedTasks :
                  /\ Len(n.heap) >= 1
                  /\ Len(n.heap) = (IF Get(n.heap[1], <<"t", "y", "p", "e">>) = Str(<<"c", "h", "e", "c", "k", "b", "o", "x">>) THEN 2 ELSE 1)
                  /\ Len(FieldsOf(n.task).a) = 1
                  /\ Get(n.heap[1], <<"t", "y", "p", "e">>) \in {Str(<<"c", "h", "e", "c", "k", "b", "o", "x">>), Str(<<"l", "a", "b", "e", "l", "s">>), Str(<<"d", "a", "t", "e">>)}
                  /\ \A i \in 1..Len(Get(n.task, <<"s", "u", "b", "t", "a", "s", "k", "s">>).a) :
                        /\ Get(n.task, <<"s", "u", "b", "t", "a", "s", "k", "s">>).a[i] # Null
                        /\ FieldsOf(Get(n.task, <<"s", "u", "b", "t", "a", "s", "k", "s">>).a[i]).t = "array"
                        /\ Get(Deref(n.heap, FieldsOf(Get(n.task, <<"s", "u", "b", "t", "a", "s", "k", "s">>).a[i]).a[1]),
                               <<"t", "y", "p", "e">>) = Str(<<"c", "h", "e", "c", "k", "b", "o", "x">>)}}

\* an invocation of a handler: the tool, its arguments, where it stands,
\* the answer its request got and the tool result it returned
Call(tool, a, blocks) ==
    [tool |-> tool, args |-> a, comment |-> blocks, pc |-> "call",
     response |-> Pending, returned |-> Pending]

\* the invocations call c may be
Invocations(c) ==
    {Call("clickup_get_task_details",
          Object(<<Prop(<<"t", "a", "s", "k", "_", "i", "d">>, Str(<<"t", Digit(c)>>)), Prop(<<"c", "o", "m", "p", "a", "c", "t">>, k)>>),
          Pending) : k \in {Absent, Bool(TRUE)}}
    \cup
    {Call("clickup_create_task_comment",
          Object(<<Prop(<<"t", "a", "s", "k", "_", "i", "d">>, Str(<<"t", Digit(c)>>))>>),
          Arr(<<Object(<<Prop(<<"t", "e", "x", "t">>, Str(<<"a">>)), Prop(<<"a", "t", "t", "r", "i", "b", "u", "t", "e", "s">>, Object(<<CodeIn(<<"j", "s">>)>>))>>),
                Object(<<Prop(<<"t", "e", "x", "t">>, Str(<<"a">>))>>)>>))}

ConcurrentInit ==
    /\ calls \in [1..MaxCalls -> UNION {Invocations(c) : c \in 1..MaxCalls}]
    /\ \A c \in 1..MaxCalls : calls[c] \in Invocations(c)
    /\ heap = <<>>
    /\ requests = <<>>
    /\ pc = "call"
    /\ field = Pending
    /\ result = Pending
    /\ task = Pending
    /\ comment = Pending
    /\ processedComment = Pending
    /\ args = Pending
    /\ returned = Pending

\* call c of clickup_get_task_details runs up to its await
InvokeDetails ==
    \E c \in 1..MaxCalls :
       /\ calls[c].tool = "clickup_get_task_details"
       /\ calls[c].pc = "call"
       /\ requests' = Append(requests,
                             Request("getTask", Get(calls[c].args, <<"t", "a", "s", "k", "_", "i", "d">>),
                                     Obj(<<Prop(<<"i", "n", "c", "l", "u", "d", "e", "_", "s", "u", "b", "t", "a", "s", "k", "s">>,
                                                Get(calls[c].args, <<"i", "n", "c", "l", "u", "d", "e", "_", "s", "u", "b", "t", "a", "s", "k", "s">>))>>)))
       /\ calls' = [calls EXCEPT ![c].pc = "awaiting"]
       /\ UNCHANGED <<field, result, pc, task, heap, comment, processedComment, args, returned>>

\* call c of clickup_create_task_comment runs up to its await
InvokeComment ==
    \E c \in 1..MaxCalls :
       /\ calls[c].tool = "clickup_create_task_comment"
       /\ calls[c].pc = "call"
       /\ requests' = Append(requests,
                             Request("post",
                                     Str(<<"/", "t", "a", "s", "k", "/">> \o ToString(Get(calls[c].args, <<"t", "a", "s", "k", "_", "i", "d">>))
                                         \o <<"/", "c", "o", "m", "m", "e", "n", "t">>),
                                     Payload(calls[c].args, processCommentBlocks(calls[c].comment))))
       /\ calls' = [calls EXCEPT ![c].pc = "awaiting"]
       /\ UNCHANGED <<field, result, pc, task, heap, comment, processedComment, args, returned>>

\* call c has run from the answer m to its return, with outcome done
Settled(c, m, done) ==
    /\ heap' = done.heap
    /\ calls' = [calls EXCEPT ![c].pc = "returned", ![c].response = m,
                              ![c].returned = done.returned]

\* the fetch of call c is answered and the call runs to its return
DetailsAnswered ==
    \E c \in 1..MaxCalls :
       /\ calls[c].tool = "clickup_get_task_details"
       /\ calls[c].pc = "awaiting"
       /\ \E m \in ConcurrentPayloads :
             Settled(c, m, details(Get(calls[c].args, <<"c", "o", "m", "p", "a", "c", "t">>),
                                   Parsed(m, heap).task, Parsed(m, heap).heap))
       /\ UNCHANGED <<field, result, pc, task, comment, processedComment, args, returned, requests>>

\* the POST of call c is answered and the call runs to its return
CommentAnswered ==
    \E c \in 1..MaxCalls :
       /\ calls[c].tool = "clickup_create_task_comment"
       /\ calls[c].pc = "awaiting"
       /\ \E r \in Responses :
             calls' = [calls EXCEPT ![c].pc = "returned", ![c].response = r,
                                    ![c].returned = ToolResult(Indented(r, heap, 0))]
       /\ UNCHANGED <<field, result, pc, task, heap, comment, processedComment, args, returned, requests>>

\* the prefix of the error text of a tool
Prefix(tool) ==
    IF tool = "clickup_get_task_details" THEN <<"E", "r", "r", "o", "r", " ", "g", "e", "t", "t", "i", "n", "g", " ", "t", "a", "s", "k", " ", "d", "e", "t", "a", "i", "l", "s">>
    ELSE <<"E", "r", "r", "o", "r", " ", "c", "r", "e", "a", "t", "i", "n", "g", " ", "t", "a", "s", "k", " ", "c", "o", "m", "m", "e", "n", "t">>

\* the request of call c fails and the catch block returns
RequestFails ==
    \E c \in 1..MaxCalls :
       /\ calls[c].pc = "awaiting"
       /\ \E e \in Failures :
             calls' = [calls EXCEPT ![c].pc = "returned", ![c].response = Throw(e),
                                    ![c].returned = Caught(Prefix(calls[c].tool), e)]
       /\ UNCHANGED <<field, result, pc, task, heap, comment, processedComment, args, returned, requests>>

ConcurrentNext ==
    \/ InvokeDetails
    \/ InvokeComment
    \/ DetailsAnswered
    \/ CommentAnswered
    \/ RequestFails

ConcurrentSpec == ConcurrentInit /\ [][ConcurrentNext]_vars

---------------------------------------------------------------------------
(* Properties of concurrent invocations *)

\* the tool result of a call run alone, with the same arguments and the
\* same answer or failure of its request
Alone(call) ==
    IF call.response.t = "throw" THEN Caught(Prefix(call.tool), call.response.e)
    ELSE IF call.tool = "clickup_get_task_details"
    THEN details(Get(call.args, <<"c", "o", "m", "p", "a", "c", "t">>), call.response.task, call.response.heap).returned
    ELSE ToolResult(Indented(call.response, <<>>, 0))

\* C22: calls in flight at the same time do not interact.  However the
\* calls of clickup_get_task_details and clickup_create_task_comment are
\* interleaved at their awaits, the result each call returns is the result
\* it gives when run alone with the same arguments and the same answer of
\* the API, and a step of one call changes no object that was in memory
\* and nothing of another call.
C22_CallsDoNotInteract ==
    /\ [](\A c \in 1..MaxCalls :
             calls[c].pc = "returned" => calls[c].returned = Alone(calls[c]))
    /\ [][/\ Len(heap') >= Len(heap)
          /\ \A r \in 1..Len(heap) : heap'[r] = heap[r]
          /\ \A c, d \in 1..MaxCalls :
                c # d /\ calls'[c] # calls[c] => calls'[d] = calls[d]]_vars

\* two calls of clickup_get_task_details, each given a task of its own:
\* the second was invoked last and answered first, the records of its task
\* lie first in memory, and both have returned the full task
C22_Witness ==
    /\ calls[1].pc = "returned"
    /\ calls[2].pc = "returned"
    /\ calls[1].tool = "clickup_get_task_details"
    /\ calls[2].tool = "clickup_get_task_details"
    /\ requests[1].id = Str(<<"t", "1">>)
    /\ ~IsError(calls[1].returned)
    /\ ~IsError(calls[2].returned)
    /\ calls[1].response # calls[2].response
    /\ Get(calls[2].response.heap[1], <<"t", "y", "p", "e">>) = Str(<<"l", "a", "b", "e", "l", "s">>)
    /\ Get(calls[1].response.heap[1], <<"t", "y", "p", "e">>) = Str(<<"c", "h", "e", "c", "k", "b", "o", "x">>)
    /\ Get(heap[1], <<"t", "y", "p", "e">>) = Str(<<"l", "a", "b", "e", "l", "s">>)
    /\ Len(heap) > 2
    /\ Get(heap[Len(heap)], <<"r", "e", "s", "o", "l", "v", "e", "d", "_", "v", "a", "l", "u", "e">>) = Str(<<"Y", "e", "s">>)

---------------------------------------------------------------------------
(* clickup_get_task_comments *)

\* a.slice(0, end) for an integer end: a negative end counts from the back
Slice(a, end) ==
    IF end < 0
    THEN SubSeq(a, 1, IF Len(a) + end < 0 THEN 0 ELSE Len(a) + end)
    ELSE SubSeq(a, 1, IF end < Len(a) THEN end ELSE Len(a))

\* if (limit && result.comments && Array.isArray(result.comments))
\*   result.comments = result.comments.slice(0, limit)
Limited(limit, r) ==
    IF Truthy(limit) /\ Truthy(Get(r, <<"c", "o", "m", "m", "e", "n", "t", "s">>)) /\ IsArray(Get(r, <<"c", "o", "m", "m", "e", "n", "t", "s">>))
    THEN SetProp(r, <<"c", "o", "m", "m", "e", "n", "t", "s">>, Arr(Slice(Get(r, <<"c", "o", "m", "m", "e", "n", "t", "s">>).a, limit.n)))
    ELSE r

\* the callback of the map of formatCommentResponse, for the completion p
\* of createMarkdownPreview: a comment with markdown is given the preview
StyledComment(c, p) ==
    IF c.t \in {"undefined", "null"} THEN Throw("TypeError")
    ELSE IF Truthy(Get(c, <<"c", "o", "m", "m", "e", "n", "t", "_", "m", "a", "r", "k", "d", "o", "w", "n">>))
    THEN (IF p.t = "throw" THEN p ELSE SetProp(c, <<"s", "t", "y", "l", "e", "d", "_", "p", "r", "e", "v", "i", "e", "w">>, p))
    ELSE c

\* result.comments = result.comments.map(...) for the completion m of the
\* map: an exception is caught and the result is returned as it is
WithStyled(r, m) == IF m.t = "throw" THEN r ELSE SetProp(r, <<"c", "o", "m", "m", "e", "n", "t", "s">>, m)

\* the preview of the markdown of the result itself
TopStyled(r, p) ==
    IF r.t = "object" /\ Truthy(Get(r, <<"c", "o", "m", "m", "e", "n", "t", "_", "m", "a", "r", "k", "d", "o", "w", "n">>)) /\ p.t # "throw"
    THEN SetProp(r, <<"s", "t", "y", "l", "e", "d", "_", "p", "r", "e", "v", "i", "e", "w">>, p)
    ELSE r

\* formatCommentResponse(result, title), createMarkdownPreview completing
\* with p.  The comments a failed map had styled already keep their
\* preview; the model gives every call of createMarkdownPreview the same
\* completion, so a failing map has styled none.
formatCommentResponse(r, p) ==
    IF r.t \in {"undefined", "null"} THEN r
    ELSE IF Truthy(Get(r, <<"c", "o", "m", "m", "e", "n", "t", "_", "m", "a", "r", "k", "d", "o", "w", "n">>)) /\ p.t = "throw" THEN r
    ELSE IF Truthy(Get(r, <<"c", "o", "m", "m", "e", "n", "t", "s">>)) /\ IsArray(Get(r, <<"c", "o", "m", "m", "e", "n", "t", "s">>))
    THEN WithStyled(TopStyled(r, p),
                    Collect([i \in 1..Len(Get(r, <<"c", "o", "m", "m", "e", "n", "t", "s">>).a) |->
                                StyledComment(Get(r, <<"c", "o", "m", "m", "e", "n", "t", "s">>).a[i], p)]))
    ELSE TopStyled(r, p)

\* what createMarkdownPreview, a function of another module, completes with
Previews == {Str(<<">", " ", "a">>), Throw("Error")}

---------------------------------------------------------------------------
(* The state machine of clickup_get_task_comments: the comments are       *)
(* fetched, cut to the limit, styled and returned as a text               *)

\* most comments of an answer
MaxComments == 3

\* a comment of the API
Comment(id, markdown) ==
    Object(<<Prop(<<"i", "d">>, Str(id)), Prop(<<"c", "o", "m", "m", "e", "n", "t", "_", "t", "e", "x", "t">>, Str(<<"a">>)),
             Prop(<<"c", "o", "m", "m", "e", "n", "t", "_", "m", "a", "r", "k", "d", "o", "w", "n">>, markdown)>>)

Comments ==
    {Comment(<<"1">>, Absent), Comment(<<"2">>, Str(<<"a">>)), Comment(<<"3">>, Absent)}

\* the answers of the API: a list of comments, or no list
CommentLists ==
    {Obj(<<Prop(<<"c", "o", "m", "m", "e", "n", "t", "s">>, Arr(cs))>>) : cs \in SeqsUpTo(Comments, MaxComments)}
    \cup {Obj(<<>>), Obj(<<Prop(<<"c", "o", "m", "m", "e", "n", "t", "s">>, Null)>>)}

\* the limits a caller gives: none, or a number
Limits == {Absent, Num(0), Num(1), Num(2), Num(5), Num(-1), Num(-5)}

GetCommentsInit ==
    /\ \E l \in Limits :
          args = Object(<<Prop(<<"t", "a", "s", "k", "_", "i", "d">>, Str(<<"t", "1">>)), Prop(<<"l", "i", "m", "i", "t">>, l)>>)
    /\ result = Pending
    /\ returned = Pending
    /\ requests = <<>>
    /\ pc = "call"
    /\ field = Pending
    /\ task = Pending
    /\ heap = <<>>
    /\ comment = Pending
    /\ processedComment = Pending
    /\ calls = <<>>

\* await commentsClient.getTaskComments(task_id, params): the call is made
\* with the arguments other than task_id and limit
GetTaskComments ==
    /\ pc = "call"
    /\ requests' = Append(requests,
                          Request("getTaskComments", Get(args, <<"t", "a", "s", "k", "_", "i", "d">>),
                                  Obj(Without(Without(args.p, <<"t", "a", "s", "k", "_", "i", "d">>), <<"l", "i", "m", "i", "t">>))))
    /\ pc' = "awaiting"
    /\ UNCHANGED <<field, result, task, heap, comment, processedComment, args, returned, calls>>

\* the call is answered
CommentsArrive ==
    /\ pc = "awaiting"
    /\ result' \in CommentLists
    /\ pc' = "fetched"
    /\ UNCHANGED <<field, task, heap, comment, processedComment, args, returned, requests, calls>>

\* the call fails: the catch block returns the error result
GetTaskCommentsFails ==
    /\ pc = "awaiting"
    /\ \E e \in Failures : returned' = Caught(<<"E", "r", "r", "o", "r", " ", "g", "e", "t", "t", "i", "n", "g", " ", "t", "a", "s", "k", " ", "c", "o", "m", "m", "e", "n", "t", "s">>, e)
    /\ pc' = "returned"
    /\ UNCHANGED <<field, result, task, heap, comment, processedComment, args, requests, calls>>

\* the limit is applied
ApplyLimit ==
    /\ pc = "fetched"
    /\ result' = Limited(Get(args, <<"l", "i", "m", "i", "t">>), result)
    /\ pc' = "limited"
    /\ UNCHANGED <<field, task, heap, comment, processedComment, args, returned, requests, calls>>

\* the styled result r is the result, and is returned as a text
Styles(r) ==
    /\ result' = r
    /\ returned' = ToolResult(Indented(r, heap, 0))

\* const styledResult = formatCommentResponse(result, 'Task Comments');
\* return { content: [{ type: 'text', text: JSON.stringify(styledResult, null, 2) }] }
ReturnComments ==
    /\ pc = "limited"
    /\ \E p \in Previews : Styles(formatCommentResponse(result, p))
    /\ pc' = "returned"
    /\ UNCHANGED <<field, task, heap, comment, processedComment, args, requests, calls>>

GetCommentsNext ==
    \/ GetTaskComments
    \/ CommentsArrive
    \/ GetTaskCommentsFails
    \/ ApplyLimit
    \/ ReturnComments

GetCommentsSpec == GetCommentsInit /\ [][GetCommentsNext]_vars

---------------------------------------------------------------------------
(* Properties of clickup_get_task_comments *)

\* the comments of the result r, when it has a list of them
CommentsOf(r) == Get(r, <<"c", "o", "m", "m", "e", "n", "t", "s">>)

\* the first n of the comments a, none for a negative n
FirstOf(a, n) == SubSeq(a, 1, IF n < 0 THEN 0 ELSE IF n < Len(a) THEN n ELSE Len(a))

\* the ids of the comments a, in their order
IdsOf(a) == [i \in 1..Len(a) |-> Get(a[i], <<"i", "d">>)]

\* C25: clickup_get_task_comments given a numeric limit returns at most
\* limit comments, the first limit comments in the order the API returned
\* them, for every limit, 0 and negative limits included; given no limit
\* it returns all comments.  Styling removes and reorders no comment, and
\* the text returned is the serialisation of the result.
C25_AtMostLimitComments ==
    [][/\ pc = "fetched" /\ CommentsOf(result).t = "array" =>
             /\ CommentsOf(result').t = "array"
             /\ CommentsOf(result').a =
                   (IF HasOwn(args, <<"l", "i", "m", "i", "t">>)
                    THEN FirstOf(CommentsOf(result).a, Get(args, <<"l", "i", "m", "i", "t">>).n)
                    ELSE CommentsOf(result).a)
       /\ pc = "limited" /\ CommentsOf(result).t = "array" =>
             /\ CommentsOf(result').t = "array"
             /\ IdsOf(CommentsOf(result').a) = IdsOf(CommentsOf(result).a)
             /\ returned' = ToolResult(Indented(result', heap, 0))
      ]_vars

---------------------------------------------------------------------------
(* clickup_create_task and clickup_update_task *)

\* delete o.k
Delete(o, k) == Obj(Without(o.p, k))

\* if (taskParams.markdown_content && taskParams.description)
\*   delete taskParams.description
Preferred(taskParams) ==
    IF Truthy(Get(taskParams, <<"m", "a", "r", "k", "d", "o", "w", "n", "_", "c", "o", "n", "t", "e", "n", "t">>)) /\ Truthy(Get(taskParams, <<"d", "e", "s", "c", "r", "i", "p", "t", "i", "o", "n">>))
    THEN Delete(taskParams, <<"d", "e", "s", "c", "r", "i", "p", "t", "i", "o", "n">>)
    ELSE taskParams

---------------------------------------------------------------------------
(* The state machine of the two handlers: the parameters are prepared and *)
(* handed to the client, and the answer or the failure is returned        *)

\* the arguments other than the id: any of name, description,
\* markdown_content, status and priority
TaskParams ==
    {Object(<<Prop(<<"n", "a", "m", "e">>, Str(<<"F", "i", "x">>)), Prop(<<"d", "e", "s", "c", "r", "i", "p", "t", "i", "o", "n">>, d),
              Prop(<<"m", "a", "r", "k", "d", "o", "w", "n", "_", "c", "o", "n", "t", "e", "n", "t">>, m), Prop(<<"s", "t", "a", "t", "u", "s">>, s), Prop(<<"p", "r", "i", "o", "r", "i", "t", "y">>, p)>>) :
        d \in {Absent, Str(<<>>), Str(<<"p", "l", "a", "i", "n">>)},
        m \in {Absent, Str(<<>>), Str(<<"#", " ", "T">>)},
        s \in {Absent, Str(<<"o", "p", "e", "n">>)},
        p \in {Absent, Num(1)}}

\* clickup_create_task is invoked with a list_id, clickup_update_task with
\* a task_id
WriteTaskInit ==
    /\ \E id \in {<<"l", "i", "s", "t", "_", "i", "d">>, <<"t", "a", "s", "k", "_", "i", "d">>}, params \in TaskParams :
          args = Obj(<<Prop(id, Str(<<"9", "0", "1">>))>> \o params.p)
    /\ result = Pending
    /\ returned = Pending
    /\ requests = <<>>
    /\ pc = "call"
    /\ field = Pending
    /\ task = Pending
    /\ heap = <<>>
    /\ comment = Pending
    /\ processedComment = Pending
    /\ calls = <<>>

\* clickup_create_task up to await tasksClient.createTask(list_id, taskParams)
CreateTask ==
    /\ pc = "call"
    /\ HasOwn(args, <<"l", "i", "s", "t", "_", "i", "d">>)
    /\ requests' = Append(requests,
                          Request("createTask", Get(args, <<"l", "i", "s", "t", "_", "i", "d">>),
                                  Preferred(Delete(args, <<"l", "i", "s", "t", "_", "i", "d">>))))
    /\ pc' = "creating"
    /\ UNCHANGED <<field, result, task, heap, comment, processedComment, args, returned, calls>>

\* clickup_update_task up to await tasksClient.updateTask(task_id, taskParams)
UpdateTask ==
    /\ pc = "call"
    /\ HasOwn(args, <<"t", "a", "s", "k", "_", "i", "d">>)
    /\ requests' = Append(requests,
                          Request("updateTask", Get(args, <<"t", "a", "s", "k", "_", "i", "d">>),
                                  Preferred(Delete(args, <<"t", "a", "s", "k", "_", "i", "d">>))))
    /\ pc' = "updating"
    /\ UNCHANGED <<field, result, task, heap, comment, processedComment, args, returned, calls>>

\* what the API answers the request with
WrittenTasks ==
    {Obj(<<Prop(<<"i", "d">>, Str(<<"t", "1">>)), Prop(<<"n", "a", "m", "e">>, Str(<<"F", "i", "x">>))>>),
     Obj(<<Prop(<<"i", "d">>, Str(<<"t", "1">>)), Prop(<<"n", "a", "m", "e">>, Str(<<"F", "i", "x">>)),
           Prop(<<"d", "e", "s", "c", "r", "i", "p", "t", "i", "o", "n">>, Str(<<"p", "l", "a", "i", "n">>))>>)}

\* the request is answered: the answer is returned as a text
WriteAnswered ==
    /\ pc = "creating" \/ pc = "updating"
    /\ \E r \in WrittenTasks :
          /\ result' = r
          /\ returned' = ToolResult(Indented(r, heap, 0))
    /\ pc' = "returned"
    /\ UNCHANGED <<field, task, heap, comment, processedComment, args, requests, calls>>

\* the request fails: the catch block returns the error result
WriteFails ==
    /\ pc = "creating" \/ pc = "updating"
    /\ \E e \in Failures :
          returned' = Caught(IF pc = "creating" THEN <<"E", "r", "r", "o", "r", " ", "c", "r", "e", "a", "t", "i", "n", "g", " ", "t", "a", "s", "k">>
                             ELSE <<"E", "r", "r", "o", "r", " ", "u", "p", "d", "a", "t", "i", "n", "g", " ", "t", "a", "s", "k">>, e)
    /\ pc' = "returned"
    /\ UNCHANGED <<field, result, task, heap, comment, processedComment, args, requests, calls>>

WriteTaskNext == CreateTask \/ UpdateTask \/ WriteAnswered \/ WriteFails

WriteTaskSpec == WriteTaskInit /\ [][WriteTaskNext]_vars

---------------------------------------------------------------------------
(* Properties of clickup_create_task and clickup_update_task *)

\* the arguments other than the id of the list or the task
GivenParams == Obj(SubSeq(args.p, 2, Len(args.p)))

\* C26: in clickup_create_task and clickup_update_task, when description
\* and markdown_content are both given, an empty description included, the
\* parameters handed to the API hold markdown_content and no description,
\* and otherwise what was given; when at most one of the two is given the
\* parameters are handed over as they were given.
C26_MarkdownPreferred ==
    pc # "call" =>
      /\ Len(requests) = 1
      /\ requests[1].body =
            (IF HasOwn(GivenParams, <<"d", "e", "s", "c", "r", "i", "p", "t", "i", "o", "n">>) /\ HasOwn(GivenParams, <<"m", "a", "r", "k", "d", "o", "w", "n", "_", "c", "o", "n", "t", "e", "n", "t">>)
             THEN Obj(Without(GivenParams.p, <<"d", "e", "s", "c", "r", "i", "p", "t", "i", "o", "n">>))
             ELSE GivenParams)
=============================================================================
